---------------------------- MODULE Spec2Model ----------------------------
(***************************************************************************)
(* A model of agent-hub's backend (src/src-tauri/src/lib.rs): the session  *)
(* supervisor for PTY and JSON children, the registries of live sessions   *)
(* and broadcast channels, the sessions store, startup orphan recovery,    *)
(* the REST / WebSocket access checks and the pairing / PIN login state    *)
(* machine.                                                                *)
(*                                                                         *)
(* Every lock scope of the source ({ let x = TABLE.lock(); ... }) is one   *)
(* atomic step; every database statement is one atomic step.  Threads and  *)
(* tasks interleave between steps.                                         *)
(*                                                                         *)
(* The model has several specifications over the same variables, each     *)
(* with the part of the environment that its properties are about:         *)
(*   Spec          session lifecycle under the desktop UI's commands       *)
(*   FairSpec      lifecycle of one session under fair scheduling          *)
(*   SpecRecovery  process start: orphan recovery concurrent with spawns   *)
(*   SpecStart     concurrent start requests of the REST API               *)
(*   SpecAccess    the REST endpoints and their access check               *)
(*   SpecWs        the per-session and the status WebSocket                *)
(*   SpecPair      pairing, with a clock                                   *)
(*   SpecPin       PIN login and its rate limit, with a clock              *)
(*   SpecLimit     PIN login from one address over several windows         *)
(*   SpecMobile    the mobile WebSocket: auth, subscriptions, commands     *)
(*   SpecStream    output of a JSON child fanned out to mobile clients     *)
(*   SpecBackpressure  consumers of a JSON child's output, draining        *)
(*   SpecInput     frames a client sends on /api/ws/{id}, pings, close     *)
(*   SpecSave      save_session and delete_session while a child runs      *)
(*   SpecStore     the UI's commands on terminal_buffers and sessions      *)
(*   SpecClosed    the recently_closed commands, statement by statement    *)
(***************************************************************************)
EXTENDS Integers, Sequences, FiniteSets, TLC

(***************************************************************************)
(* Bounds of the model.                                                    *)
(***************************************************************************)
MaxChildren == 2
NumReqs == 2
NumWs == 1
MaxPairings == 2
NumPairCalls == 2
NumPinCalls == 2
\* Mobile WebSocket connections at a time.
NumMobile == 2
\* Lines one child writes to its stdout and stderr together.
MaxLines == 2
\* Capacity of a session's broadcast channel (256 in broadcast::channel::<String>(256)),
\* scaled down.
ChannelCapacity == 1
\* Messages on a mobile client's channel up to which the client sends frames.
MaxQueue == 1
\* Capacity of a child's stdin channel (100 in mpsc::channel::<String>(100)), scaled down.
StdinCapacity == 1
\* Pings counted on a connection without a pong in between.
MaxPings == 2
\* Rows save_recently_closed keeps (LIMIT 10 in the source), scaled down.
RecentlyClosedCap == 2
\* Values of closed_at, in the order of the column.
MaxStamp == 2
\* Calls of the recently_closed commands in flight.
NumRcCalls == 2
\* session_deleted events on the status bus.
MaxDeletes == 2
\* save_session calls of the UI.
MaxSaves == 2

(***************************************************************************)
(* Value spaces.                                                           *)
(***************************************************************************)
SessionIds == {"s1", "s2"}
ChildIds == 1..MaxChildren
ReqIds == 1..NumReqs
WsIds == 1..NumWs
MobIds == 1..NumMobile
\* Scrollback texts the UI saves.
BufferTexts == {"x"}
Tokens == {"t1", "t2"}
\* PIDs recorded by a previous instance of the application.
OldPids == {101, 102}
\* child.id().unwrap_or(0), Option<u32> None and "no map entry" are all 0.
NoPid == 0
NoChild == 0
ChildPid(c) == c
Pids == OldPids \cup {ChildPid(c) : c \in ChildIds}

\* A row of the sessions table: agent_type decides the variant that
\* api_start_session spawns, running_pid is the crash-recovery column.
AgentTypes == {"claude-json", "shell"}
NoRow == [agent_type |-> "", running_pid |-> NoPid]
Rows == [agent_type : AgentTypes, running_pid : Pids \cup {NoPid}]

VARIABLES
    sessions,           \* sessions table: session id -> row or NoRow
    terminal_buffers,   \* terminal_buffers table: session id -> stored text or ""
    PTY_SESSIONS,       \* session id -> child whose PtySession is registered
    PTY_BROADCASTERS,   \* session id -> child whose channel is registered
    JSON_PROCESSES,     \* session id -> child whose JsonProcess is registered
    JSON_BROADCASTERS,  \* session id -> child whose channel is registered
    PAIRED_DEVICES,     \* set of tokens (keys of the map)
    child,              \* child id -> supervisor state of one spawn
    osAlive,            \* pids of running processes
    signals,            \* signals delivered: set of <<pid, signal, sender>>
    killers,            \* pids a kill_json_process timer thread will SIGKILL
    statusBus,          \* what was sent on STATUS_BROADCASTER, in order
    cleanup,            \* the cleanup_orphaned_processes thread
    req,                \* REST request handlers in flight
    ws,                 \* WebSocket connections
    startup,            \* the sessions table and live pids at process start
    PAIRING_REQUESTS,   \* pairing id -> PairingRequest or NoRequest
    PIN_RATE_LIMIT,     \* client ip -> (attempts, last_attempt) or NoEntry
    now,                \* the clock, in milliseconds
    remote_pin,         \* settings.remote_pin
    issued,             \* number of pairing ids generated so far
    pairMints,          \* pairing id -> tokens minted for it
    pairCall,           \* api_pair handlers in flight
    pinCall,            \* api_pin_login handlers in flight
    pipe,               \* child id -> lines the child wrote and no task read yet
    task,               \* child id -> the stdout and the stderr task's line in hand
    channel,            \* child id -> the broadcast channel created by that spawn
    stdin,              \* child id -> what was sent on the child's stdin channel
    MOBILE_CLIENTS,     \* client id -> MobileClient or NoClient
    mob,                \* handle_ws_mobile handlers
    mobq,               \* client id -> what was sent on the client's tx channel, in order
    recently_closed,    \* recently_closed table: id -> closed_at or NoStamp
    rcCall,             \* save_recently_closed calls in flight, last results
    foreign_keys,       \* whether the SQLite library enforces foreign keys by default
    saveCall            \* the UI's save_session call in flight

outVars == <<pipe, task, channel, stdin>>

storeVars == <<recently_closed, rcCall, foreign_keys, saveCall>>

mobVars == <<MOBILE_CLIENTS, mob, mobq>>

supVars == <<sessions, terminal_buffers, PTY_SESSIONS, PTY_BROADCASTERS,
             JSON_PROCESSES, JSON_BROADCASTERS, child, osAlive, signals,
             killers, statusBus, cleanup, req, ws, startup, outVars, mobVars>>

authVars == <<PAIRING_REQUESTS, PIN_RATE_LIMIT, now, remote_pin, issued, pairMints,
              pairCall, pinCall>>

vars == <<supVars, storeVars, PAIRED_DEVICES, authVars>>

(***************************************************************************)
(* Helpers.                                                                *)
(***************************************************************************)
Keys(table) == {s \in SessionIds : table[s] # NoChild}
EmptyTable == [s \in SessionIds |-> NoChild]
HasRow(s) == sessions[s] # NoRow

\* The window size of a child without a PTY.
NoSize == [cols |-> 0, rows |-> 0]

UnusedChild == [session |-> "", variant |-> "", origin |-> "", pid |-> NoPid,
                pc |-> "unused", ready |-> "none", cmd |-> "", size |-> NoSize]

FreeChildren == {c \in ChildIds : child[c].pc = "unused"}
\* Children are numbered in the order they are spawned.
NextChild == CHOOSE c \in FreeChildren : \A d \in FreeChildren : c <= d

StatusEvent(s, running) == [type |-> "session_status", session_id |-> s, running |-> running]

ProcessingEvent(s, processing) ==
    [type |-> "processing_status", session_id |-> s, running |-> processing]

\* A message on a mobile client's channel.  key is the member of "status"
\* ("running" or "isProcessing") or the msg_type of a chat message, spawn
\* the child whose supervisor sent it, list the running sessions of a
\* session_list.
Msg(type, s, key, flag, c) ==
    [type |-> type, sessionId |-> s, key |-> key, flag |-> flag, spawn |-> c, list |-> {}]

\* An entry of MOBILE_CLIENTS.
NoClient == [present |-> FALSE, subscribed_sessions |-> {}]

\* lib.rs 220-225: client.sender.send(msg) for every entry of MOBILE_CLIENTS.
broadcast_to_mobile_clients(msg) ==
    [m \in MobIds |-> IF MOBILE_CLIENTS[m].present THEN Append(mobq[m], msg) ELSE mobq[m]]

\* A fan-out that does not look at the subscription sets.
broadcast_to_session_subscribers_All(s, msg) == broadcast_to_mobile_clients(msg)

\* lib.rs 229-236: only the entries whose subscribed_sessions contains s.
broadcast_to_session_subscribers(s, msg) ==
    [m \in MobIds |-> IF MOBILE_CLIENTS[m].present /\ s \in MOBILE_CLIENTS[m].subscribed_sessions
                      THEN Append(mobq[m], msg)
                      ELSE mobq[m]]

\* lib.rs 141-156: send on STATUS_BROADCASTER, then to all mobile clients.
\* c is the spawn on whose behalf the supervisor calls.
broadcast_session_status(s, running, c) ==
    /\ statusBus' = Append(statusBus, StatusEvent(s, running))
    /\ mobq' = broadcast_to_mobile_clients(Msg("session_status", s, "running", running, c))

\* lib.rs 160-175: send on STATUS_BROADCASTER, then to all mobile clients.
broadcast_processing_status(s, processing, c) ==
    /\ statusBus' = Append(statusBus, ProcessingEvent(s, processing))
    /\ mobq' = broadcast_to_mobile_clients(Msg("session_status", s, "isProcessing", processing, c))

\* save_session_pid: UPDATE sessions SET running_pid = ? WHERE id = ?
save_session_pid(s, pid) ==
    sessions' = IF HasRow(s)
                THEN [sessions EXCEPT ![s].running_pid = pid]
                ELSE sessions

\* is_process_running: kill(pid, 0) == 0
is_process_running(pid) == pid \in osAlive


(***************************************************************************)
(* spawn_json_process: the caller creates the ready channel and starts the *)
(* supervisor thread; the thread runs the steps below.                     *)
(***************************************************************************)
\* lib.rs 1603-1641: the call itself.  cmd is "empty" or "ok" (cmd_str.trim().is_empty()).
spawn_json_process(c, s, origin, cmd) ==
    child' = [child EXCEPT ![c] = [session |-> s, variant |-> "json", origin |-> origin,
                                   pid |-> NoPid, pc |-> "t_start", ready |-> "none",
                                   cmd |-> cmd, size |-> NoSize]]

\* A supervisor that signals ready as soon as the child process exists.
JsonThreadStart_ReadyFirst(c, execOk) ==
    /\ child[c].pc = "t_start"
    /\ IF child[c].cmd = "empty" \/ ~execOk
       THEN /\ child' = [child EXCEPT ![c].pc = "failed", ![c].ready = "err", ![c].cmd = ""]
            /\ UNCHANGED osAlive
       ELSE /\ child' = [child EXCEPT ![c].pc = "t_insert_proc", ![c].ready = "ok",
                                      ![c].cmd = "",
                                      ![c].pid = ChildPid(c)]
            /\ osAlive' = osAlive \cup {ChildPid(c)}
    /\ UNCHANGED <<sessions, terminal_buffers, storeVars, PTY_SESSIONS, PTY_BROADCASTERS,
                   JSON_PROCESSES, JSON_BROADCASTERS, PAIRED_DEVICES, signals, killers,
                   statusBus, cleanup, req, ws, startup, authVars, outVars, mobVars>>

\* lib.rs 1644-1680: empty command or exec failure report Err on the ready
\* channel and end the thread; otherwise the child process exists.
JsonThreadStart(c, execOk) ==
    /\ child[c].pc = "t_start"
    /\ IF child[c].cmd = "empty" \/ ~execOk
       THEN /\ child' = [child EXCEPT ![c].pc = "failed", ![c].ready = "err", ![c].cmd = ""]
            /\ UNCHANGED osAlive
       ELSE /\ child' = [child EXCEPT ![c].pc = "t_insert_proc", ![c].cmd = "",
                                      ![c].pid = ChildPid(c)]
            /\ osAlive' = osAlive \cup {ChildPid(c)}
    /\ UNCHANGED <<sessions, terminal_buffers, storeVars, PTY_SESSIONS, PTY_BROADCASTERS,
                   JSON_PROCESSES, JSON_BROADCASTERS, PAIRED_DEVICES, signals, killers,
                   statusBus, cleanup, req, ws, startup, authVars, outVars, mobVars>>

\* lib.rs 1691-1697
JsonInsertProcesses(c) ==
    /\ child[c].pc = "t_insert_proc"
    /\ JSON_PROCESSES' = [JSON_PROCESSES EXCEPT ![child[c].session] = c]
    /\ child' = [child EXCEPT ![c].pc = "t_insert_bc"]
    /\ UNCHANGED <<sessions, terminal_buffers, storeVars, PTY_SESSIONS, PTY_BROADCASTERS,
                   JSON_BROADCASTERS, PAIRED_DEVICES, osAlive, signals, killers,
                   statusBus, cleanup, req, ws, startup, authVars, outVars, mobVars>>

\* lib.rs 1698-1701
JsonInsertBroadcasters(c) ==
    /\ child[c].pc = "t_insert_bc"
    /\ JSON_BROADCASTERS' = [JSON_BROADCASTERS EXCEPT ![child[c].session] = c]
    /\ child' = [child EXCEPT ![c].pc = "t_ready"]
    /\ UNCHANGED <<sessions, terminal_buffers, storeVars, PTY_SESSIONS, PTY_BROADCASTERS,
                   JSON_PROCESSES, PAIRED_DEVICES, osAlive, signals, killers,
                   statusBus, cleanup, req, ws, startup, authVars, outVars, mobVars>>

\* lib.rs 1703-1704: ready_tx.send(Ok(()))
JsonReady(c) ==
    /\ child[c].pc = "t_ready"
    /\ child' = [child EXCEPT ![c].pc = "t_save_pid", ![c].ready = "ok"]
    /\ UNCHANGED <<sessions, terminal_buffers, storeVars, PTY_SESSIONS, PTY_BROADCASTERS,
                   JSON_PROCESSES, JSON_BROADCASTERS, PAIRED_DEVICES, osAlive, signals,
                   killers, statusBus, cleanup, req, ws, startup, authVars, outVars, mobVars>>

\* lib.rs 1706-1707: save_session_pid(&session_id_clone, Some(child_id))
JsonSavePid(c) ==
    /\ child[c].pc = "t_save_pid"
    /\ save_session_pid(child[c].session, child[c].pid)
    /\ child' = [child EXCEPT ![c].pc = "t_status_true"]
    /\ UNCHANGED <<terminal_buffers, storeVars, PTY_SESSIONS, PTY_BROADCASTERS, JSON_PROCESSES,
                   JSON_BROADCASTERS, PAIRED_DEVICES, osAlive, signals, killers,
                   statusBus, cleanup, req, ws, startup, authVars, outVars, mobVars>>

\* lib.rs 1714-1715, then the stdin / stdout / stderr tasks are spawned and
\* the thread waits in child.wait() (1817).
JsonStatusTrue(c) ==
    /\ child[c].pc = "t_status_true"
    /\ broadcast_session_status(child[c].session, TRUE, c)
    /\ child' = [child EXCEPT ![c].pc = "t_wait"]
    /\ UNCHANGED <<sessions, terminal_buffers, storeVars, PTY_SESSIONS, PTY_BROADCASTERS,
                   JSON_PROCESSES, JSON_BROADCASTERS, PAIRED_DEVICES, osAlive, signals,
                   killers, cleanup, req, ws, startup, authVars, outVars,
                   MOBILE_CLIENTS, mob>>

\* lib.rs 1816-1830: child.wait() returns once the process is gone.
JsonExitObserved(c) ==
    /\ child[c].pc = "t_wait"
    /\ ~is_process_running(child[c].pid)
    /\ child' = [child EXCEPT ![c].pc = "t_remove_proc"]
    /\ UNCHANGED <<sessions, terminal_buffers, storeVars, PTY_SESSIONS, PTY_BROADCASTERS,
                   JSON_PROCESSES, JSON_BROADCASTERS, PAIRED_DEVICES, osAlive, signals,
                   killers, statusBus, cleanup, req, ws, startup, authVars, outVars, mobVars>>

\* lib.rs 1833-1836: processes.remove(&session_id_clone)
JsonRemoveProcesses(c) ==
    /\ child[c].pc = "t_remove_proc"
    /\ JSON_PROCESSES' = [JSON_PROCESSES EXCEPT ![child[c].session] = NoChild]
    /\ child' = [child EXCEPT ![c].pc = "t_remove_bc"]
    /\ UNCHANGED <<sessions, terminal_buffers, storeVars, PTY_SESSIONS, PTY_BROADCASTERS,
                   JSON_BROADCASTERS, PAIRED_DEVICES, osAlive, signals, killers,
                   statusBus, cleanup, req, ws, startup, authVars, outVars, mobVars>>

\* lib.rs 1837-1840: broadcasters.remove(&session_id_clone)
JsonRemoveBroadcasters(c) ==
    /\ child[c].pc = "t_remove_bc"
    /\ JSON_BROADCASTERS' = [JSON_BROADCASTERS EXCEPT ![child[c].session] = NoChild]
    /\ child' = [child EXCEPT ![c].pc = "t_clear_pid"]
    /\ UNCHANGED <<sessions, terminal_buffers, storeVars, PTY_SESSIONS, PTY_BROADCASTERS,
                   JSON_PROCESSES, PAIRED_DEVICES, osAlive, signals, killers,
                   statusBus, cleanup, req, ws, startup, authVars, outVars, mobVars>>

\* lib.rs 1841-1842: save_session_pid(&session_id_clone, None)
JsonClearPid(c) ==
    /\ child[c].pc = "t_clear_pid"
    /\ save_session_pid(child[c].session, NoPid)
    /\ child' = [child EXCEPT ![c].pc = "t_status_false"]
    /\ UNCHANGED <<terminal_buffers, storeVars, PTY_SESSIONS, PTY_BROADCASTERS, JSON_PROCESSES,
                   JSON_BROADCASTERS, PAIRED_DEVICES, osAlive, signals, killers,
                   statusBus, cleanup, req, ws, startup, authVars, outVars, mobVars>>

\* lib.rs 1843-1844: broadcast_session_status(&session_id_clone, false)
JsonStatusFalse(c) ==
    /\ child[c].pc = "t_status_false"
    /\ broadcast_session_status(child[c].session, FALSE, c)
    /\ child' = [child EXCEPT ![c] = [UnusedChild EXCEPT !.pc = "done", !.ready = child[c].ready]]
    /\ UNCHANGED <<sessions, terminal_buffers, storeVars, PTY_SESSIONS, PTY_BROADCASTERS,
                   JSON_PROCESSES, JSON_BROADCASTERS, PAIRED_DEVICES, osAlive, signals,
                   killers, cleanup, req, ws, startup, authVars, outVars,
                   MOBILE_CLIENTS, mob>>

(***************************************************************************)
(* spawn_pty: the steps run in the caller's thread up to the start of the  *)
(* reader thread, which then owns the exit cleanup.                        *)
(***************************************************************************)
\* lib.rs 1327-1346: the call; openpty / spawn_command may fail below.
spawn_pty(c, s, origin) ==
    child' = [child EXCEPT ![c] = [session |-> s, variant |-> "pty", origin |-> origin,
                                   pid |-> NoPid, pc |-> "p_start", ready |-> "none",
                                   cmd |-> "", size |-> [cols |-> 80, rows |-> 24]]]

\* lib.rs 1427-1438: spawn_command, take_writer, try_clone_reader
PtySpawnCommand(c, execOk) ==
    /\ child[c].pc = "p_start"
    /\ IF execOk
       THEN /\ child' = [child EXCEPT ![c].pc = "p_insert_sess", ![c].pid = ChildPid(c)]
            /\ osAlive' = osAlive \cup {ChildPid(c)}
       ELSE /\ child' = [child EXCEPT ![c].pc = "failed", ![c].ready = "err"]
            /\ UNCHANGED osAlive
    /\ UNCHANGED <<sessions, terminal_buffers, storeVars, PTY_SESSIONS, PTY_BROADCASTERS,
                   JSON_PROCESSES, JSON_BROADCASTERS, PAIRED_DEVICES, signals, killers,
                   statusBus, cleanup, req, ws, startup, authVars, outVars, mobVars>>

\* lib.rs 1440-1443
PtyInsertSessions(c) ==
    /\ child[c].pc = "p_insert_sess"
    /\ PTY_SESSIONS' = [PTY_SESSIONS EXCEPT ![child[c].session] = c]
    /\ child' = [child EXCEPT ![c].pc = "p_insert_bc"]
    /\ UNCHANGED <<sessions, terminal_buffers, storeVars, PTY_BROADCASTERS, JSON_PROCESSES,
                   JSON_BROADCASTERS, PAIRED_DEVICES, osAlive, signals, killers,
                   statusBus, cleanup, req, ws, startup, authVars, outVars, mobVars>>

\* lib.rs 1444-1447
PtyInsertBroadcasters(c) ==
    /\ child[c].pc = "p_insert_bc"
    /\ PTY_BROADCASTERS' = [PTY_BROADCASTERS EXCEPT ![child[c].session] = c]
    /\ child' = [child EXCEPT ![c].pc = "p_status_true"]
    /\ UNCHANGED <<sessions, terminal_buffers, storeVars, PTY_SESSIONS, JSON_PROCESSES,
                   JSON_BROADCASTERS, PAIRED_DEVICES, osAlive, signals, killers,
                   statusBus, cleanup, req, ws, startup, authVars, outVars, mobVars>>

\* lib.rs 1449-1450 and 1496-1499, 1546: status broadcast, reader thread
\* started, Ok(()) returned to the caller.
PtyStatusTrue(c) ==
    /\ child[c].pc = "p_status_true"
    /\ broadcast_session_status(child[c].session, TRUE, c)
    /\ child' = [child EXCEPT ![c].pc = "p_read", ![c].ready = "ok"]
    /\ UNCHANGED <<sessions, terminal_buffers, storeVars, PTY_SESSIONS, PTY_BROADCASTERS,
                   JSON_PROCESSES, JSON_BROADCASTERS, PAIRED_DEVICES, osAlive, signals,
                   killers, cleanup, req, ws, startup, authVars, outVars,
                   MOBILE_CLIENTS, mob>>

\* lib.rs 1501-1513, 1530: the reader sees Ok(0) or Err once the child is gone.
PtyReaderEof(c) ==
    /\ child[c].pc = "p_read"
    /\ ~is_process_running(child[c].pid)
    /\ child' = [child EXCEPT ![c].pc = "p_remove_sess"]
    /\ UNCHANGED <<sessions, terminal_buffers, storeVars, PTY_SESSIONS, PTY_BROADCASTERS,
                   JSON_PROCESSES, JSON_BROADCASTERS, PAIRED_DEVICES, osAlive, signals,
                   killers, statusBus, cleanup, req, ws, startup, authVars, outVars, mobVars>>

\* lib.rs 1534-1537
PtyRemoveSessions(c) ==
    /\ child[c].pc = "p_remove_sess"
    /\ PTY_SESSIONS' = [PTY_SESSIONS EXCEPT ![child[c].session] = NoChild]
    /\ child' = [child EXCEPT ![c].pc = "p_remove_bc"]
    /\ UNCHANGED <<sessions, terminal_buffers, storeVars, PTY_BROADCASTERS, JSON_PROCESSES,
                   JSON_BROADCASTERS, PAIRED_DEVICES, osAlive, signals, killers,
                   statusBus, cleanup, req, ws, startup, authVars, outVars, mobVars>>

\* lib.rs 1538-1541
PtyRemoveBroadcasters(c) ==
    /\ child[c].pc = "p_remove_bc"
    /\ PTY_BROADCASTERS' = [PTY_BROADCASTERS EXCEPT ![child[c].session] = NoChild]
    /\ child' = [child EXCEPT ![c].pc = "p_status_false"]
    /\ UNCHANGED <<sessions, terminal_buffers, storeVars, PTY_SESSIONS, JSON_PROCESSES,
                   JSON_BROADCASTERS, PAIRED_DEVICES, osAlive, signals, killers,
                   statusBus, cleanup, req, ws, startup, authVars, outVars, mobVars>>

\* lib.rs 1542-1543
PtyStatusFalse(c) ==
    /\ child[c].pc = "p_status_false"
    /\ broadcast_session_status(child[c].session, FALSE, c)
    /\ child' = [child EXCEPT ![c] = [UnusedChild EXCEPT !.pc = "done", !.ready = child[c].ready]]
    /\ UNCHANGED <<sessions, terminal_buffers, storeVars, PTY_SESSIONS, PTY_BROADCASTERS,
                   JSON_PROCESSES, JSON_BROADCASTERS, PAIRED_DEVICES, osAlive, signals,
                   killers, cleanup, req, ws, startup, authVars, outVars,
                   MOBILE_CLIENTS, mob>>

(***************************************************************************)
(* The operating system: a running process may end at any time (graceful   *)
(* exit or crash).                                                         *)
(***************************************************************************)
ProcessExit(pid) ==
    /\ pid \in osAlive
    /\ osAlive' = osAlive \ {pid}
    /\ UNCHANGED <<sessions, terminal_buffers, storeVars, PTY_SESSIONS, PTY_BROADCASTERS,
                   JSON_PROCESSES, JSON_BROADCASTERS, PAIRED_DEVICES, child, signals,
                   killers, statusBus, cleanup, req, ws, startup, authVars, outVars, mobVars>>

(***************************************************************************)
(* Commands of the embedding UI (Tauri commands): no access check.         *)
(***************************************************************************)
\* spawn_json_process invoked by the desktop UI.
UiSpawnJson(s, cmd) ==
    /\ FreeChildren # {}
    /\ spawn_json_process(NextChild, s, "ui", cmd)
    /\ UNCHANGED <<sessions, terminal_buffers, storeVars, PTY_SESSIONS, PTY_BROADCASTERS,
                   JSON_PROCESSES, JSON_BROADCASTERS, PAIRED_DEVICES, osAlive, signals,
                   killers, statusBus, cleanup, req, ws, startup, authVars, outVars, mobVars>>

\* spawn_pty invoked by the desktop UI.
UiSpawnPty(s) ==
    /\ FreeChildren # {}
    /\ spawn_pty(NextChild, s, "ui")
    /\ UNCHANGED <<sessions, terminal_buffers, storeVars, PTY_SESSIONS, PTY_BROADCASTERS,
                   JSON_PROCESSES, JSON_BROADCASTERS, PAIRED_DEVICES, osAlive, signals,
                   killers, statusBus, cleanup, req, ws, startup, authVars, outVars, mobVars>>

\* lib.rs 1590-1594: kill_pty removes the PtySession from PTY_SESSIONS.
kill_pty(s) ==
    /\ PTY_SESSIONS[s] # NoChild
    /\ PTY_SESSIONS' = [PTY_SESSIONS EXCEPT ![s] = NoChild]
    /\ UNCHANGED <<sessions, terminal_buffers, storeVars, PTY_BROADCASTERS, JSON_PROCESSES,
                   JSON_BROADCASTERS, PAIRED_DEVICES, child, osAlive, signals, killers,
                   statusBus, cleanup, req, ws, startup, authVars, outVars, mobVars>>

\* lib.rs 1902-1918: kill_json_process removes the JsonProcess, sends SIGTERM
\* and starts a thread that sends SIGKILL 500 ms later.
kill_json_process(s) ==
    /\ JSON_PROCESSES[s] # NoChild
    /\ LET pid == child[JSON_PROCESSES[s]].pid IN
         /\ signals' = signals \cup {<<pid, "SIGTERM", "kill_json_process">>}
         /\ killers' = killers \cup {pid}
    /\ JSON_PROCESSES' = [JSON_PROCESSES EXCEPT ![s] = NoChild]
    /\ UNCHANGED <<sessions, terminal_buffers, storeVars, PTY_SESSIONS, PTY_BROADCASTERS,
                   JSON_BROADCASTERS, PAIRED_DEVICES, child, osAlive, statusBus,
                   cleanup, req, ws, startup, authVars, outVars, mobVars>>

\* lib.rs 1910-1915: the timer thread's SIGKILL ends the process.
KillTimerFires(pid) ==
    /\ pid \in killers
    /\ killers' = killers \ {pid}
    /\ signals' = signals \cup {<<pid, "SIGKILL", "kill_json_process">>}
    /\ osAlive' = osAlive \ {pid}
    /\ UNCHANGED <<sessions, terminal_buffers, storeVars, PTY_SESSIONS, PTY_BROADCASTERS,
                   JSON_PROCESSES, JSON_BROADCASTERS, PAIRED_DEVICES, child, statusBus,
                   cleanup, req, ws, startup, authVars, outVars, mobVars>>

(***************************************************************************)
(* The store commands: terminal_buffers, sessions, recently_closed.        *)
(***************************************************************************)
\* Option<String>: Ok(None), Ok(Some(x)); Err(..) of a failed decode.
None == [some |-> FALSE, text |-> ""]
Some(x) == [some |-> TRUE, text |-> x]
DecodeErr == [some |-> FALSE, text |-> "err"]

\* No row for the session in terminal_buffers.
NoBuffer == <<>>

\* lib.rs 1925-1932: the gzip stream of the content's bytes.
GzEncoder(x) == <<"gz", x>>

\* lib.rs 1935: BASE64.encode(&compressed)
BASE64_encode(bytes) == <<"b64">> \o bytes

\* lib.rs 1965-1967: BASE64.decode(&encoded); <<>> when the text is not base64.
BASE64_decode(encoded) ==
    IF Len(encoded) > 0 /\ encoded[1] = "b64" THEN Tail(encoded) ELSE <<>>

\* lib.rs 1970-1976: GzDecoder and read_to_string.
GzDecoder(bytes) ==
    IF Len(bytes) = 2 /\ bytes[1] = "gz" THEN Some(bytes[2]) ELSE DecodeErr

\* A load that hands out the decoded bytes without decompressing them.
load_terminal_buffer_NoGunzip(s) ==
    IF terminal_buffers[s] = NoBuffer
    THEN None
    ELSE Some(BASE64_decode(terminal_buffers[s])[1])

\* lib.rs 1952-1980
load_terminal_buffer(s) ==
    IF terminal_buffers[s] = NoBuffer
    THEN None
    ELSE GzDecoder(BASE64_decode(terminal_buffers[s]))

\* lib.rs 585-593 and 1939-1944: the INSERT OR REPLACE fails on the foreign
\* key when foreign keys are enforced and sessions has no row for s.
InsertBuffer(s, encoded) ==
    IF foreign_keys /\ sessions[s] = NoRow
    THEN terminal_buffers
    ELSE [terminal_buffers EXCEPT ![s] = encoded]

\* lib.rs 1923-1947: gzip, base64, INSERT OR REPLACE INTO terminal_buffers.
save_terminal_buffer(s, x) ==
    /\ terminal_buffers' = InsertBuffer(s, BASE64_encode(GzEncoder(x)))
    /\ UNCHANGED <<sessions, storeVars, PTY_SESSIONS, PTY_BROADCASTERS, JSON_PROCESSES,
                   JSON_BROADCASTERS, PAIRED_DEVICES, child, osAlive, signals, killers,
                   statusBus, cleanup, req, ws, startup, authVars, outVars, mobVars>>

\* lib.rs 1984-1992: DELETE FROM terminal_buffers WHERE session_id = ?1
delete_terminal_buffer(s) ==
    /\ terminal_buffers' = [terminal_buffers EXCEPT ![s] = NoBuffer]
    /\ UNCHANGED <<sessions, storeVars, PTY_SESSIONS, PTY_BROADCASTERS, JSON_PROCESSES,
                   JSON_BROADCASTERS, PAIRED_DEVICES, child, osAlive, signals, killers,
                   statusBus, cleanup, req, ws, startup, authVars, outVars, mobVars>>

\* lib.rs 585-593: ON DELETE CASCADE removes the session's buffer when
\* foreign keys are enforced.
Cascade(s) ==
    IF foreign_keys THEN [terminal_buffers EXCEPT ![s] = NoBuffer] ELSE terminal_buffers

\* lib.rs 835-845 with broadcast_session_deleted 192-203
delete_session(s) ==
    /\ Len(statusBus) < MaxDeletes
    /\ sessions' = [sessions EXCEPT ![s] = NoRow]
    /\ terminal_buffers' = Cascade(s)
    /\ statusBus' = Append(statusBus, [type |-> "session_deleted", session_id |-> s,
                                       running |-> FALSE])
    /\ mobq' = broadcast_to_mobile_clients(Msg("session_deleted", s, "", FALSE, NoChild))
    /\ UNCHANGED <<storeVars, PTY_SESSIONS, PTY_BROADCASTERS, JSON_PROCESSES,
                   JSON_BROADCASTERS, PAIRED_DEVICES, child, osAlive, signals, killers,
                   cleanup, req, ws, startup, authVars, outVars, MOBILE_CLIENTS, mob>>

\* The UI's save_session call: the statement it is at, its argument, the
\* result of its SELECT COUNT, and the number of calls so far.
IdleSave == [pc |-> "idle", sid |-> "", agent_type |-> "", is_new |-> FALSE, calls |-> 0]

\* lib.rs 781-789: is_new from SELECT COUNT(*) FROM sessions WHERE id = ?1
SaveSessionCount(s, agent_type) ==
    /\ saveCall.pc = "idle"
    /\ saveCall.calls < MaxSaves
    /\ saveCall' = [pc |-> "insert", sid |-> s, agent_type |-> agent_type,
                    is_new |-> ~HasRow(s), calls |-> saveCall.calls + 1]
    /\ UNCHANGED <<supVars, PAIRED_DEVICES, authVars, recently_closed, rcCall, foreign_keys>>

\* lib.rs 791-807: INSERT OR REPLACE INTO sessions (...) without the column
\* running_pid: REPLACE deletes the row of the id, which cascades to the
\* session's buffer when foreign keys are enforced, and the new row has
\* running_pid NULL.
ReplaceRow(s, agent_type) == [sessions EXCEPT ![s] = [agent_type |-> agent_type,
                                                      running_pid |-> NoPid]]

\* lib.rs 791-816 with broadcast_session_created 179-190 and
\* broadcast_session_updated 207-216
SaveSessionInsert ==
    /\ saveCall.pc = "insert"
    /\ sessions' = ReplaceRow(saveCall.sid, saveCall.agent_type)
    /\ terminal_buffers' = IF HasRow(saveCall.sid) THEN Cascade(saveCall.sid)
                                                   ELSE terminal_buffers
    /\ LET type == IF saveCall.is_new THEN "session_created" ELSE "session_updated" IN
         /\ statusBus' = Append(statusBus, [type |-> type, session_id |-> saveCall.sid,
                                            running |-> FALSE])
         /\ mobq' = broadcast_to_mobile_clients(Msg(type, saveCall.sid, "", FALSE, NoChild))
    /\ saveCall' = [IdleSave EXCEPT !.calls = saveCall.calls]
    /\ UNCHANGED <<recently_closed, rcCall, foreign_keys, PTY_SESSIONS, PTY_BROADCASTERS,
                   JSON_PROCESSES, JSON_BROADCASTERS, PAIRED_DEVICES, child, osAlive, signals,
                   killers, cleanup, req, ws, startup, authVars, outVars, MOBILE_CLIENTS, mob>>

\* The recently_closed table: id -> closed_at, NoStamp for no row.
ClosedIds == {"s1", "s2", "s3"}
NoStamp == 0
Stamps == 1..MaxStamp
RcCalls == 1..NumRcCalls
\* pc: the statement each save_recently_closed call is at; seen: the number
\* of rows the last get_recently_closed returned; deleted: the number of rows
\* the last pruning DELETE removed.
IdleRc == [pc |-> [k \in RcCalls |-> "idle"], seen |-> 0, deleted |-> 0]

ClosedRows(table) == {i \in ClosedIds : table[i] # NoStamp}

\* lib.rs 966: SELECT id FROM recently_closed ORDER BY closed_at DESC LIMIT 10;
\* rows with the same closed_at come in either order.
MostRecent_Oldest(table) ==
    {K \in SUBSET ClosedRows(table) :
        /\ Cardinality(K) = IF Cardinality(ClosedRows(table)) < RecentlyClosedCap
                            THEN Cardinality(ClosedRows(table)) ELSE RecentlyClosedCap
        /\ \A k \in K, d \in ClosedRows(table) \ K : table[k] <= table[d]}

MostRecent(table) ==
    {K \in SUBSET ClosedRows(table) :
        /\ Cardinality(K) = IF Cardinality(ClosedRows(table)) < RecentlyClosedCap
                            THEN Cardinality(ClosedRows(table)) ELSE RecentlyClosedCap
        /\ \A k \in K, d \in ClosedRows(table) \ K : table[k] >= table[d]}

\* lib.rs 945-961: the INSERT OR REPLACE of save_recently_closed.
RcSaveInsert(k, id, closed_at) ==
    /\ rcCall.pc[k] = "idle"
    /\ recently_closed' = [recently_closed EXCEPT ![id] = closed_at]
    /\ rcCall' = [rcCall EXCEPT !.pc[k] = "prune"]
    /\ UNCHANGED <<supVars, PAIRED_DEVICES, authVars, foreign_keys, saveCall>>

\* lib.rs 963-971: DELETE ... WHERE id NOT IN (the ten most recent).
RcSavePrune(k) ==
    /\ rcCall.pc[k] = "prune"
    /\ \E K \in MostRecent(recently_closed) :
          /\ recently_closed' = [i \in ClosedIds |-> IF i \in K THEN recently_closed[i]
                                                             ELSE NoStamp]
          /\ rcCall' = [rcCall EXCEPT !.pc[k] = "idle",
                                      !.deleted = Cardinality(ClosedRows(recently_closed) \ K)]
    /\ UNCHANGED <<supVars, PAIRED_DEVICES, authVars, foreign_keys, saveCall>>

\* lib.rs 975-998: the SELECT of get_recently_closed.
get_recently_closed ==
    /\ rcCall' = [rcCall EXCEPT !.seen = Cardinality(ClosedRows(recently_closed))]
    /\ UNCHANGED <<supVars, PAIRED_DEVICES, authVars, recently_closed, foreign_keys, saveCall>>

\* lib.rs 1001-1006
delete_recently_closed(id) ==
    /\ recently_closed' = [recently_closed EXCEPT ![id] = NoStamp]
    /\ UNCHANGED <<supVars, PAIRED_DEVICES, authVars, rcCall, foreign_keys, saveCall>>

\* lib.rs 2520-2524 and 2629-2633: the one place that adds a key to
\* PAIRED_DEVICES after startup (a completed pairing or PIN login; the
\* handlers themselves are the actions of SpecAuth).
DevicePaired(t) ==
    /\ t \notin PAIRED_DEVICES
    /\ PAIRED_DEVICES' = PAIRED_DEVICES \cup {t}
    /\ UNCHANGED <<supVars, storeVars, authVars>>

(***************************************************************************)
(* cleanup_orphaned_processes, run on its own thread from setup_app.       *)
(***************************************************************************)
\* lib.rs 689-699: SELECT id, running_pid FROM sessions WHERE running_pid IS NOT NULL
CleanupQuery ==
    /\ cleanup.pc = "query"
    /\ cleanup' = [cleanup EXCEPT
                     !.pc = "next",
                     !.rows = {<<s, sessions[s].running_pid>> :
                                  s \in {x \in SessionIds : HasRow(x) /\ sessions[x].running_pid # NoPid}}]
    /\ UNCHANGED <<sessions, terminal_buffers, storeVars, PTY_SESSIONS, PTY_BROADCASTERS,
                   JSON_PROCESSES, JSON_BROADCASTERS, PAIRED_DEVICES, child, osAlive,
                   signals, killers, statusBus, req, ws, startup, authVars, outVars, mobVars>>

\* lib.rs 701-710: next row; a running pid is sent SIGTERM.
CleanupNextRow ==
    /\ cleanup.pc = "next"
    /\ IF cleanup.rows = {}
       THEN /\ cleanup' = [cleanup EXCEPT !.pc = "done"]
            /\ UNCHANGED signals
       ELSE \E row \in cleanup.rows :
              IF is_process_running(row[2])
              THEN /\ signals' = signals \cup {<<row[2], "SIGTERM", "cleanup">>}
                   /\ cleanup' = [pc |-> "sleep", rows |-> cleanup.rows \ {row}, cur |-> row]
              ELSE /\ cleanup' = [pc |-> "clear", rows |-> cleanup.rows \ {row}, cur |-> row]
                   /\ UNCHANGED signals
    /\ UNCHANGED <<sessions, terminal_buffers, storeVars, PTY_SESSIONS, PTY_BROADCASTERS,
                   JSON_PROCESSES, JSON_BROADCASTERS, PAIRED_DEVICES, child, osAlive,
                   killers, statusBus, req, ws, startup, authVars, outVars, mobVars>>

\* lib.rs 711-715: after 100 ms, SIGKILL.
CleanupSigkill ==
    /\ cleanup.pc = "sleep"
    /\ signals' = signals \cup {<<cleanup.cur[2], "SIGKILL", "cleanup">>}
    /\ osAlive' = osAlive \ {cleanup.cur[2]}
    /\ cleanup' = [cleanup EXCEPT !.pc = "clear"]
    /\ UNCHANGED <<sessions, terminal_buffers, storeVars, PTY_SESSIONS, PTY_BROADCASTERS,
                   JSON_PROCESSES, JSON_BROADCASTERS, PAIRED_DEVICES, child, killers,
                   statusBus, req, ws, startup, authVars, outVars, mobVars>>

\* lib.rs 720-721: save_session_pid(&session_id, None)
CleanupClearPid ==
    /\ cleanup.pc = "clear"
    /\ save_session_pid(cleanup.cur[1], NoPid)
    /\ cleanup' = [cleanup EXCEPT !.pc = "next", !.cur = <<"", NoPid>>]
    /\ UNCHANGED <<terminal_buffers, storeVars, PTY_SESSIONS, PTY_BROADCASTERS, JSON_PROCESSES,
                   JSON_BROADCASTERS, PAIRED_DEVICES, child, osAlive, signals, killers,
                   statusBus, req, ws, startup, authVars, outVars, mobVars>>

(***************************************************************************)
(* Access check of the REST endpoints.                                     *)
(***************************************************************************)
\* The Authorization header of a request: absent, or a scheme prefix
\* followed by a value.
NoHeader == [scheme |-> "", value |-> ""]
Headers == {NoHeader} \cup [scheme : {"Bearer "}, value : Tokens]
                      \cup {[scheme |-> "Basic ", value |-> "t1"]}
NoToken == ""

\* lib.rs 2404-2410: the value after the prefix "Bearer ", or None.
extract_token(hdr) == IF hdr.scheme = "Bearer " THEN hdr.value ELSE NoToken

\* is_valid_token that accepts any token once a device is paired.
is_valid_token_AnyToken(token) == PAIRED_DEVICES # {}

\* lib.rs 747-750
is_valid_token(token) == token \in PAIRED_DEVICES

\* lib.rs 2421-2427: the second half of check_auth.
TokenAuthorizes(hdr) == extract_token(hdr) # NoToken /\ is_valid_token(extract_token(hdr))

IdleReq == [kind |-> "", sid |-> "", arg |-> "", hdr |-> NoHeader, pc |-> "idle",
            resp |-> 0, body |-> "", child |-> NoChild, rows |-> {}, run |-> {}]

EndpointKinds == {"list", "create", "buffer", "start", "interrupt"}

FirstPc(kind) ==
    CASE kind = "list" -> "l_load"
      [] kind = "create" -> "c_save"
      [] kind = "buffer" -> "b_load"
      [] kind = "start" -> "s_pty"
      [] kind = "interrupt" -> "i_json"

Respond(r, status, text) ==
    req' = [req EXCEPT ![r].pc = "done", ![r].resp = status, ![r].body = text,
                       ![r].hdr = NoHeader]

\* A request arrives at one of the REST endpoints.
ApiBegin(r, kind, sid, arg, hdr) ==
    /\ req[r].pc = "idle"
    /\ req' = [req EXCEPT ![r] = [IdleReq EXCEPT !.kind = kind, !.sid = sid, !.arg = arg,
                                                 !.hdr = hdr, !.pc = "auth"]]
    /\ UNCHANGED <<sessions, terminal_buffers, storeVars, PTY_SESSIONS, PTY_BROADCASTERS,
                   JSON_PROCESSES, JSON_BROADCASTERS, PAIRED_DEVICES, child, osAlive,
                   signals, killers, statusBus, cleanup, ws, startup, authVars, outVars, mobVars>>

\* lib.rs 2414-2419: check_auth, first lock scope: no device paired allows.
CheckAuthEmpty(r) ==
    /\ req[r].pc = "auth"
    /\ IF PAIRED_DEVICES = {}
       THEN req' = [req EXCEPT ![r].pc = FirstPc(req[r].kind), ![r].hdr = NoHeader]
       ELSE req' = [req EXCEPT ![r].pc = "auth_token"]
    /\ UNCHANGED <<sessions, terminal_buffers, storeVars, PTY_SESSIONS, PTY_BROADCASTERS,
                   JSON_PROCESSES, JSON_BROADCASTERS, PAIRED_DEVICES, child, osAlive,
                   signals, killers, statusBus, cleanup, ws, startup, authVars, outVars, mobVars>>

\* lib.rs 2421-2427: check_auth, the token; 401 ends the handler.
CheckAuthToken(r) ==
    /\ req[r].pc = "auth_token"
    /\ IF TokenAuthorizes(req[r].hdr)
       THEN req' = [req EXCEPT ![r].pc = FirstPc(req[r].kind), ![r].hdr = NoHeader]
       ELSE Respond(r, 401, "unauthorized")
    /\ UNCHANGED <<sessions, terminal_buffers, storeVars, PTY_SESSIONS, PTY_BROADCASTERS,
                   JSON_PROCESSES, JSON_BROADCASTERS, PAIRED_DEVICES, child, osAlive,
                   signals, killers, statusBus, cleanup, ws, startup, authVars, outVars, mobVars>>

\* The response has been written; the handler slot is free again.
ApiReturn(r) ==
    /\ req[r].pc = "done"
    /\ req' = [req EXCEPT ![r] = IdleReq]
    /\ UNCHANGED <<sessions, terminal_buffers, storeVars, PTY_SESSIONS, PTY_BROADCASTERS,
                   JSON_PROCESSES, JSON_BROADCASTERS, PAIRED_DEVICES, child, osAlive,
                   signals, killers, statusBus, cleanup, ws, startup, authVars, outVars, mobVars>>

(***************************************************************************)
(* GET /api/sessions, POST /api/sessions, GET /api/sessions/{id}/buffer    *)
(***************************************************************************)
\* lib.rs 2683: load_sessions()
ListLoad(r) ==
    /\ req[r].pc = "l_load"
    /\ req' = [req EXCEPT ![r].pc = "l_pty", ![r].rows = {s \in SessionIds : HasRow(s)}]
    /\ UNCHANGED <<sessions, terminal_buffers, storeVars, PTY_SESSIONS, PTY_BROADCASTERS,
                   JSON_PROCESSES, JSON_BROADCASTERS, PAIRED_DEVICES, child, osAlive,
                   signals, killers, statusBus, cleanup, ws, startup, authVars, outVars, mobVars>>

\* lib.rs 2686-2689
ListPtyRunning(r) ==
    /\ req[r].pc = "l_pty"
    /\ req' = [req EXCEPT ![r].pc = "l_json", ![r].run = Keys(PTY_BROADCASTERS)]
    /\ UNCHANGED <<sessions, terminal_buffers, storeVars, PTY_SESSIONS, PTY_BROADCASTERS,
                   JSON_PROCESSES, JSON_BROADCASTERS, PAIRED_DEVICES, child, osAlive,
                   signals, killers, statusBus, cleanup, ws, startup, authVars, outVars, mobVars>>

\* lib.rs 2690-2712: the answer lists every row with its running flag.
ListJsonRunning(r) ==
    /\ req[r].pc = "l_json"
    /\ req' = [req EXCEPT ![r].pc = "done", ![r].resp = 200, ![r].body = "sessions",
                          ![r].run = (req[r].run \cup Keys(JSON_BROADCASTERS)) \cap req[r].rows]
    /\ UNCHANGED <<sessions, terminal_buffers, storeVars, PTY_SESSIONS, PTY_BROADCASTERS,
                   JSON_PROCESSES, JSON_BROADCASTERS, PAIRED_DEVICES, child, osAlive,
                   signals, killers, statusBus, cleanup, ws, startup, authVars, outVars, mobVars>>

\* lib.rs 2757-2840 with save_session 781-819: a row under a fresh id, and
\* session_created on the status bus.
CreateSave(r) ==
    /\ req[r].pc = "c_save"
    /\ \E s \in SessionIds :
         /\ sessions[s] = NoRow
         /\ sessions' = [sessions EXCEPT ![s] = [agent_type |-> req[r].arg, running_pid |-> NoPid]]
         /\ statusBus' = Append(statusBus, [type |-> "session_created", session_id |-> s,
                                            running |-> FALSE])
         /\ mobq' = broadcast_to_mobile_clients(Msg("session_created", s, "", FALSE, NoChild))
         /\ req' = [req EXCEPT ![r].pc = "done", ![r].resp = 200, ![r].body = "created",
                               ![r].sid = s]
    /\ UNCHANGED <<terminal_buffers, storeVars, PTY_SESSIONS, PTY_BROADCASTERS, JSON_PROCESSES,
                   JSON_BROADCASTERS, PAIRED_DEVICES, child, osAlive, signals, killers,
                   cleanup, ws, startup, authVars, outVars,
                   MOBILE_CLIENTS, mob>>

\* lib.rs 2851-2855: load_terminal_buffer
BufferLoad(r) ==
    /\ req[r].pc = "b_load"
    /\ req' = [req EXCEPT ![r].pc = "done", ![r].resp = 200,
                          ![r].body = load_terminal_buffer(req[r].sid).text]
    /\ UNCHANGED <<sessions, terminal_buffers, storeVars, PTY_SESSIONS, PTY_BROADCASTERS,
                   JSON_PROCESSES, JSON_BROADCASTERS, PAIRED_DEVICES, child, osAlive,
                   signals, killers, statusBus, cleanup, ws, startup, authVars, outVars, mobVars>>

(***************************************************************************)
(* POST /api/sessions/{id}/start                                           *)
(***************************************************************************)
\* lib.rs 2868-2873
StartCheckPty(r) ==
    /\ req[r].pc = "s_pty"
    /\ IF req[r].sid \in Keys(PTY_BROADCASTERS)
       THEN Respond(r, 200, "already_running")
       ELSE req' = [req EXCEPT ![r].pc = "s_json"]
    /\ UNCHANGED <<sessions, terminal_buffers, storeVars, PTY_SESSIONS, PTY_BROADCASTERS,
                   JSON_PROCESSES, JSON_BROADCASTERS, PAIRED_DEVICES, child, osAlive,
                   signals, killers, statusBus, cleanup, ws, startup, authVars, outVars, mobVars>>

\* lib.rs 2874-2879
StartCheckJson(r) ==
    /\ req[r].pc = "s_json"
    /\ IF req[r].sid \in Keys(JSON_BROADCASTERS)
       THEN Respond(r, 200, "already_running")
       ELSE req' = [req EXCEPT ![r].pc = "s_load"]
    /\ UNCHANGED <<sessions, terminal_buffers, storeVars, PTY_SESSIONS, PTY_BROADCASTERS,
                   JSON_PROCESSES, JSON_BROADCASTERS, PAIRED_DEVICES, child, osAlive,
                   signals, killers, statusBus, cleanup, ws, startup, authVars, outVars, mobVars>>

\* lib.rs 2881-2902: the row decides the variant; 404 without a row.
StartLoad(r) ==
    /\ req[r].pc = "s_load"
    /\ IF ~HasRow(req[r].sid)
       THEN Respond(r, 404, "Session not found")
       ELSE IF sessions[req[r].sid].agent_type = "claude-json"
            THEN req' = [req EXCEPT ![r].pc = "s_json2"]
            ELSE req' = [req EXCEPT ![r].pc = "s_spawn_pty"]
    /\ UNCHANGED <<sessions, terminal_buffers, storeVars, PTY_SESSIONS, PTY_BROADCASTERS,
                   JSON_PROCESSES, JSON_BROADCASTERS, PAIRED_DEVICES, child, osAlive,
                   signals, killers, statusBus, cleanup, ws, startup, authVars, outVars, mobVars>>

\* lib.rs 2905-2911
StartCheckJsonAgain(r) ==
    /\ req[r].pc = "s_json2"
    /\ IF req[r].sid \in Keys(JSON_BROADCASTERS)
       THEN Respond(r, 200, "already_running")
       ELSE req' = [req EXCEPT ![r].pc = "s_spawn_json"]
    /\ UNCHANGED <<sessions, terminal_buffers, storeVars, PTY_SESSIONS, PTY_BROADCASTERS,
                   JSON_PROCESSES, JSON_BROADCASTERS, PAIRED_DEVICES, child, osAlive,
                   signals, killers, statusBus, cleanup, ws, startup, authVars, outVars, mobVars>>

\* lib.rs 2913-2922: spawn_json_process(...) is called with the row's command.
StartSpawnJson(r, cmd) ==
    /\ req[r].pc = "s_spawn_json"
    /\ FreeChildren # {}
    /\ spawn_json_process(NextChild, req[r].sid, "api", cmd)
    /\ req' = [req EXCEPT ![r].pc = "s_wait", ![r].child = NextChild]
    /\ UNCHANGED <<sessions, terminal_buffers, storeVars, PTY_SESSIONS, PTY_BROADCASTERS,
                   JSON_PROCESSES, JSON_BROADCASTERS, PAIRED_DEVICES, osAlive, signals,
                   killers, statusBus, cleanup, ws, startup, authVars, outVars, mobVars>>

\* lib.rs 2930-2941: spawn_pty(...) is called.
StartSpawnPty(r) ==
    /\ req[r].pc = "s_spawn_pty"
    /\ FreeChildren # {}
    /\ spawn_pty(NextChild, req[r].sid, "api")
    /\ req' = [req EXCEPT ![r].pc = "s_wait", ![r].child = NextChild]
    /\ UNCHANGED <<sessions, terminal_buffers, storeVars, PTY_SESSIONS, PTY_BROADCASTERS,
                   JSON_PROCESSES, JSON_BROADCASTERS, PAIRED_DEVICES, osAlive, signals,
                   killers, statusBus, cleanup, ws, startup, authVars, outVars, mobVars>>

\* lib.rs 1848-1855 and 2923-2927, 2942-2947: the result of the spawn call.
StartSpawned(r) ==
    /\ req[r].pc = "s_wait"
    /\ child[req[r].child].ready \in {"ok", "err"}
    /\ IF child[req[r].child].ready = "ok"
       THEN Respond(r, 200, "started")
       ELSE Respond(r, 500, "spawn failed")
    /\ UNCHANGED <<sessions, terminal_buffers, storeVars, PTY_SESSIONS, PTY_BROADCASTERS,
                   JSON_PROCESSES, JSON_BROADCASTERS, PAIRED_DEVICES, child, osAlive,
                   signals, killers, statusBus, cleanup, ws, startup, authVars, outVars, mobVars>>

\* lib.rs 1851-1854: recv_timeout(10 s) expires before the thread reports.
StartSpawnTimeout(r) ==
    /\ req[r].pc = "s_wait"
    /\ child[req[r].child].variant = "json"
    /\ child[req[r].child].ready \notin {"ok", "err"}
    /\ Respond(r, 500, "Timeout waiting for process to start")
    /\ UNCHANGED <<sessions, terminal_buffers, storeVars, PTY_SESSIONS, PTY_BROADCASTERS,
                   JSON_PROCESSES, JSON_BROADCASTERS, PAIRED_DEVICES, child, osAlive,
                   signals, killers, statusBus, cleanup, ws, startup, authVars, outVars, mobVars>>

(***************************************************************************)
(* POST /api/sessions/{id}/interrupt                                       *)
(***************************************************************************)
\* lib.rs 2977-2983
InterruptCheckJson(r) ==
    /\ req[r].pc = "i_json"
    /\ req' = [req EXCEPT ![r].pc = IF req[r].sid \in Keys(JSON_BROADCASTERS)
                                    THEN "i_sigint" ELSE "i_pty"]
    /\ UNCHANGED <<sessions, terminal_buffers, storeVars, PTY_SESSIONS, PTY_BROADCASTERS,
                   JSON_PROCESSES, JSON_BROADCASTERS, PAIRED_DEVICES, child, osAlive,
                   signals, killers, statusBus, cleanup, ws, startup, authVars, outVars, mobVars>>

\* lib.rs 2984-2995: SIGINT to the registered child_id, or 404.
InterruptSigint(r) ==
    /\ req[r].pc = "i_sigint"
    /\ LET c == JSON_PROCESSES[req[r].sid] IN
         IF c # NoChild /\ child[c].pid > 0
         THEN /\ signals' = signals \cup {<<child[c].pid, "SIGINT", "api_interrupt_session">>}
              /\ Respond(r, 200, "interrupted")
         ELSE /\ Respond(r, 404, "Process not found")
              /\ UNCHANGED signals
    /\ UNCHANGED <<sessions, terminal_buffers, storeVars, PTY_SESSIONS, PTY_BROADCASTERS,
                   JSON_PROCESSES, JSON_BROADCASTERS, PAIRED_DEVICES, child, osAlive,
                   killers, statusBus, cleanup, ws, startup, authVars, outVars, mobVars>>

\* lib.rs 2997-3003, 3016
InterruptCheckPty(r) ==
    /\ req[r].pc = "i_pty"
    /\ IF req[r].sid \in Keys(PTY_BROADCASTERS)
       THEN req' = [req EXCEPT ![r].pc = "i_etx"]
       ELSE Respond(r, 404, "Session not running")
    /\ UNCHANGED <<sessions, terminal_buffers, storeVars, PTY_SESSIONS, PTY_BROADCASTERS,
                   JSON_PROCESSES, JSON_BROADCASTERS, PAIRED_DEVICES, child, osAlive,
                   signals, killers, statusBus, cleanup, ws, startup, authVars, outVars, mobVars>>

\* A variant of the PTY branch that answers without writing the byte.
InterruptEtx_NoByte(r) ==
    /\ req[r].pc = "i_etx"
    /\ IF PTY_SESSIONS[req[r].sid] # NoChild
       THEN Respond(r, 200, "interrupted")
       ELSE Respond(r, 404, "PTY session not found")
    /\ UNCHANGED <<sessions, terminal_buffers, storeVars, PTY_SESSIONS, PTY_BROADCASTERS,
                   JSON_PROCESSES, JSON_BROADCASTERS, PAIRED_DEVICES, child, osAlive,
                   signals, killers, statusBus, cleanup, ws, startup, authVars, outVars, mobVars>>

\* lib.rs 3004-3014: the byte 0x03 written to the PTY master, or 404.
InterruptEtx(r) ==
    /\ req[r].pc = "i_etx"
    /\ LET c == PTY_SESSIONS[req[r].sid] IN
         IF c # NoChild
         THEN /\ signals' = signals \cup {<<child[c].pid, "ETX", "api_interrupt_session">>}
              /\ Respond(r, 200, "interrupted")
         ELSE /\ Respond(r, 404, "PTY session not found")
              /\ UNCHANGED signals
    /\ UNCHANGED <<sessions, terminal_buffers, storeVars, PTY_SESSIONS, PTY_BROADCASTERS,
                   JSON_PROCESSES, JSON_BROADCASTERS, PAIRED_DEVICES, child, osAlive,
                   killers, statusBus, cleanup, ws, startup, authVars, outVars, mobVars>>

(***************************************************************************)
(* WebSocket /api/ws/{id} (handle_ws) and /api/ws/status                   *)
(* (handle_ws_status).                                                     *)
(***************************************************************************)
\* unread and lagged are the state of the receiver rx of the session's
\* channel: the items it has not received yet, and whether it fell behind
\* by more than the capacity.
\* A frame read from a socket: its opcode and its payload.
NoFrame == [op |-> "", data |-> ""]

\* A connection: pc is "streaming" while the send task and the receive task
\* both run, "send_only" and "recv_only" while one of them is left; frame
\* and hpc are the frame in the hands of the receive task and its place in
\* handling it; unanswered counts the pings sent since the last pong came;
\* accepted says that try_send took the frame in hand, copies counts the sends
\* of that frame on the session's channel.
ClosedWs == [kind |-> "", sid |-> "", hdr |-> NoHeader, pc |-> "closed", variant |-> "",
             chan |-> NoChild, pos |-> 0, wrote |-> FALSE, unread |-> 0, lagged |-> FALSE,
             frame |-> NoFrame, hpc |-> "", unanswered |-> 0, accepted |-> FALSE,
             copies |-> 0]

\* lib.rs 3134-3139 and 3349-3351: the route handlers upgrade the connection.
WsConnect(w, kind, sid, hdr) ==
    /\ ws[w].pc = "closed"
    /\ ws' = [ws EXCEPT ![w] = [ClosedWs EXCEPT !.kind = kind, !.sid = sid, !.hdr = hdr,
                                  !.pc = IF kind = "status" THEN "sub_status" ELSE "classify"]]
    /\ UNCHANGED <<sessions, terminal_buffers, storeVars, PTY_SESSIONS, PTY_BROADCASTERS,
                   JSON_PROCESSES, JSON_BROADCASTERS, PAIRED_DEVICES, child, osAlive,
                   signals, killers, statusBus, cleanup, req, startup, authVars, outVars, mobVars>>

\* lib.rs 3148-3152: JSON session or PTY session?
WsClassify(w) ==
    /\ ws[w].pc = "classify"
    /\ ws' = [ws EXCEPT ![w].pc = "sub_chan",
                        ![w].variant = IF ws[w].sid \in Keys(JSON_PROCESSES) THEN "json" ELSE "pty"]
    /\ UNCHANGED <<sessions, terminal_buffers, storeVars, PTY_SESSIONS, PTY_BROADCASTERS,
                   JSON_PROCESSES, JSON_BROADCASTERS, PAIRED_DEVICES, child, osAlive,
                   signals, killers, statusBus, cleanup, req, startup, authVars, outVars, mobVars>>

\* lib.rs 3156-3164 and 3244-3252: subscribe to the session's channel, or
\* answer "not found" and return.
WsSubscribeChannel(w) ==
    /\ ws[w].pc = "sub_chan"
    /\ LET table == IF ws[w].variant = "json" THEN JSON_BROADCASTERS ELSE PTY_BROADCASTERS IN
         IF table[ws[w].sid] = NoChild
         THEN ws' = [ws EXCEPT ![w] = ClosedWs]
         ELSE ws' = [ws EXCEPT ![w].pc = "sub_status", ![w].chan = table[ws[w].sid]]
    /\ UNCHANGED <<sessions, terminal_buffers, storeVars, PTY_SESSIONS, PTY_BROADCASTERS,
                   JSON_PROCESSES, JSON_BROADCASTERS, PAIRED_DEVICES, child, osAlive,
                   signals, killers, statusBus, cleanup, req, startup, authVars, outVars, mobVars>>

\* lib.rs 3167, 3255, 3358: STATUS_BROADCASTER.subscribe() receives what is
\* sent from now on.
WsSubscribeStatus(w) ==
    /\ ws[w].pc = "sub_status"
    /\ ws' = [ws EXCEPT ![w].pc = "streaming", ![w].pos = Len(statusBus) + 1]
    /\ UNCHANGED <<sessions, terminal_buffers, storeVars, PTY_SESSIONS, PTY_BROADCASTERS,
                   JSON_PROCESSES, JSON_BROADCASTERS, PAIRED_DEVICES, child, osAlive,
                   signals, killers, statusBus, cleanup, req, startup, authVars, outVars, mobVars>>

\* lib.rs 3187-3193, 3273-3279, 3365-3371: a status event is received and
\* written to the socket as a Text frame; writing to a socket that the
\* client has closed fails and ends the send task.
WsForwardStatus(w) ==
    /\ ws[w].pc \in {"streaming", "send_only"}
    /\ ws[w].pos <= Len(statusBus)
    /\ ws' = [ws EXCEPT ![w].pos = ws[w].pos + 1,
                        ![w].pc = IF ws[w].pc = "send_only" THEN "send_end" ELSE @]
    /\ UNCHANGED <<sessions, terminal_buffers, storeVars, PTY_SESSIONS, PTY_BROADCASTERS,
                   JSON_PROCESSES, JSON_BROADCASTERS, PAIRED_DEVICES, child, osAlive,
                   signals, killers, statusBus, cleanup, req, startup, authVars, outVars, mobVars>>

(***************************************************************************)
(* Output of a JSON child: the child writes lines to its stdout and stderr *)
(* pipes; the stdout and stderr tasks of the supervisor read them and fan  *)
(* them out; the stdin task feeds the child.                               *)
(***************************************************************************)
Streams == {"stdout", "stderr"}

\* lib.rs 516-526: parse_claude_json yields a message with a msg_type, or
\* None ("raw") for a line that is not JSON.
LineKinds == {"assistant", "result", "raw"}

NoPipe == [stdout |-> <<>>, stderr |-> <<>>, written |-> 0]
IdleTask == [pc |-> "idle", kind |-> "", session |-> ""]

\* Everything but signals, statusBus and the output and mobile variables.
quietVars == <<sessions, terminal_buffers, storeVars, PTY_SESSIONS, PTY_BROADCASTERS, JSON_PROCESSES,
               JSON_BROADCASTERS, PAIRED_DEVICES, child, osAlive, killers, cleanup, req,
               startup, authVars>>

\* Tasks that would run before the supervisor has reported the start.
TasksRunning_BeforeStatus(c) ==
    child[c].pc \in {"t_status_true", "t_wait", "t_remove_proc", "t_remove_bc",
                     "t_clear_pid", "t_status_false"}

\* lib.rs 1717-1814: the three tasks exist from the time they are spawned
\* until the runtime of the supervisor thread is dropped at the end of it.
TasksRunning(c) ==
    child[c].pc \in {"t_wait", "t_remove_proc", "t_remove_bc", "t_clear_pid", "t_status_false"}

\* lib.rs 1687-1688 and tokio's broadcast channel: send never blocks; the
\* channel keeps the newest ChannelCapacity items, and a receiver that has
\* more than that unread has lost the oldest ones (its next recv is Lagged).
Receivers(conns, c) ==
    [w \in WsIds |->
        IF conns[w].chan = c /\ conns[w].variant = "json"
             /\ conns[w].pc \in {"sub_status", "streaming", "send_only"}
        THEN IF conns[w].unread = ChannelCapacity
             THEN [conns[w] EXCEPT !.lagged = TRUE]
             ELSE [conns[w] EXCEPT !.unread = @ + 1]
        ELSE conns[w]]

ChannelSend(c, item) ==
    /\ channel' = [channel EXCEPT ![c] = IF Len(@) = ChannelCapacity
                                         THEN Append(Tail(@), item)
                                         ELSE Append(@, item)]
    /\ ws' = Receivers(ws, c)

\* The child process writes a line to one of its pipes.
ChildWrites(c, st, kind) ==
    /\ child[c].variant = "json"
    /\ child[c].pid # NoPid
    /\ is_process_running(child[c].pid)
    /\ pipe[c].written < MaxLines
    /\ pipe' = [pipe EXCEPT ![c][st] = Append(@, kind), ![c].written = @ + 1]
    /\ UNCHANGED <<quietVars, signals, statusBus, ws, task, channel, stdin, mobVars>>

\* lib.rs 1736-1751 and 1787-1791: next_line() and parse_claude_json; the
\* stdout task reports assistant and result as the processing state.
TaskRead(c, st) ==
    /\ TasksRunning(c)
    /\ task[c][st].pc = "idle"
    /\ pipe[c][st] # <<>>
    /\ LET kind == Head(pipe[c][st])
           s == child[c].session
       IN /\ pipe' = [pipe EXCEPT ![c][st] = Tail(@)]
          /\ task' = [task EXCEPT ![c][st] = [pc |-> IF kind = "raw" THEN "send" ELSE "fanout",
                                              kind |-> kind, session |-> s]]
          /\ IF st = "stdout" /\ kind \in {"assistant", "result"}
             THEN broadcast_processing_status(s, kind = "assistant", c)
             ELSE UNCHANGED <<statusBus, mobq>>
    /\ UNCHANGED <<quietVars, signals, ws, channel, stdin, MOBILE_CLIENTS, mob>>

\* lib.rs 1753-1765 and 1792-1801: chat_message to the session's mobile
\* subscribers.
TaskFanout(c, st) ==
    /\ task[c][st].pc = "fanout"
    /\ mobq' = broadcast_to_session_subscribers(
                   task[c][st].session,
                   Msg("chat_message", task[c][st].session, task[c][st].kind, FALSE, c))
    /\ task' = [task EXCEPT ![c][st].pc = "send"]
    /\ UNCHANGED <<quietVars, signals, statusBus, ws, pipe, channel, stdin, MOBILE_CLIENTS, mob>>

\* lib.rs 1767-1779 and 1802-1812: the raw line on the session's channel.
TaskSend(c, st) ==
    /\ task[c][st].pc = "send"
    /\ ChannelSend(c, task[c][st].kind)
    /\ task' = [task EXCEPT ![c][st] = IdleTask]
    /\ UNCHANGED <<quietVars, signals, statusBus, pipe, stdin, mobVars>>

\* lib.rs 1719-1730: the stdin task writes what arrives on the stdin
\* channel to the child.
StdinTask(c) ==
    /\ TasksRunning(c)
    /\ stdin[c] # <<>>
    /\ stdin' = [stdin EXCEPT ![c] = Tail(@)]
    /\ UNCHANGED <<quietVars, signals, statusBus, ws, pipe, task, channel, mobVars>>

\* The send task has ended: handle_ws returns (lib.rs 3238-3241) and the
\* receive task, whose JoinHandle is dropped, goes on alone; once both tasks
\* have ended nothing is left of the connection.
SendTaskEnded(conn) ==
    IF conn.pc = "streaming"
    THEN [conn EXCEPT !.pc = "recv_only", !.pos = 0, !.unread = 0, !.lagged = FALSE,
                      !.chan = NoChild, !.unanswered = 0]
    ELSE ClosedWs

\* lib.rs 3174-3185: the send task of handle_ws receives the next item of
\* the session's channel and writes it to the socket; a Lagged or Closed
\* receiver ends the task, and so does a write to a socket that the client
\* has closed.
WsForwardOutput(w) ==
    /\ ws[w].pc \in {"streaming", "send_only"}
    /\ ws[w].kind = "session"
    /\ ws[w].variant = "json"
    /\ ws[w].lagged \/ ws[w].unread > 0
    /\ ws' = [ws EXCEPT ![w] = IF ws[w].lagged
                               THEN SendTaskEnded(ws[w])
                               ELSE [@ EXCEPT !.unread = @ - 1,
                                              !.pc = IF @ = "send_only" THEN "send_end" ELSE @]]
    /\ UNCHANGED <<quietVars, signals, statusBus, outVars, mobVars>>

(***************************************************************************)
(* Input on /api/ws/{id}: the receive task of handle_ws reads a frame and  *)
(* handles it; the keepalive; the end of a connection.                     *)
(***************************************************************************)
ResizeText == "{\"type\":\"resize\",\"cols\":100,\"rows\":30}"

\* Text payloads: keys typed at a terminal, a digit (which is a JSON
\* document), a resize message, and a resize message without a size.
TextPayloads == {"ls", "1", ResizeText, "{\"type\":\"resize\"}"}

\* serde_json::from_str::<Value> with the members the handler looks at:
\* ok is whether the text is a JSON document, cols and rows are -1 when the
\* member is absent.
from_str(text) ==
    CASE text = ResizeText -> [ok |-> TRUE, type |-> "resize", cols |-> 100, rows |-> 30]
      [] text = "{\"type\":\"resize\"}" -> [ok |-> TRUE, type |-> "resize", cols |-> -1, rows |-> -1]
      [] text = "1" -> [ok |-> TRUE, type |-> "", cols |-> -1, rows |-> -1]
      [] OTHER -> [ok |-> FALSE, type |-> "", cols |-> -1, rows |-> -1]

WsFrames ==
    [op : {"Text"}, data : TextPayloads]
        \cup {[op |-> "Binary", data |-> "ls"], [op |-> "Pong", data |-> ""]}

\* lib.rs 3206 and 3292: receiver.next() yields a frame.  A pong answers the
\* pings sent so far.
WsReceive(w, frame) ==
    /\ ws[w].pc \in {"streaming", "recv_only"}
    /\ ws[w].kind = "session"
    /\ ws[w].frame = NoFrame
    /\ ws' = [ws EXCEPT ![w].frame = frame, ![w].hpc = "write",
                        ![w].unanswered = IF frame.op = "Pong" THEN 0 ELSE @]
    /\ UNCHANGED <<quietVars, signals, statusBus, outVars, mobVars>>

\* lib.rs 3207-3210 and 3229-3233 with write_to_process 1861-1866: a Text
\* frame of a JSON session goes to the stdin channel of the registered child
\* (try_send fails when the channel is full); other frames are ignored.
WsWrite(w) ==
    /\ ws[w].hpc = "write"
    /\ ws[w].variant = "json"
    /\ LET c == JSON_PROCESSES[ws[w].sid] IN
         IF ws[w].frame.op # "Text"
         THEN /\ ws' = [ws EXCEPT ![w].frame = NoFrame, ![w].hpc = ""]
              /\ UNCHANGED stdin
         ELSE IF c # NoChild /\ Len(stdin[c]) < StdinCapacity
              THEN /\ stdin' = [stdin EXCEPT ![c] = Append(@, ws[w].frame.data)]
                   /\ ws' = [ws EXCEPT ![w].hpc = "echo1", ![w].wrote = TRUE,
                                       ![w].accepted = TRUE]
              ELSE /\ ws' = [ws EXCEPT ![w].hpc = "echo2"]
                   /\ UNCHANGED stdin
    /\ UNCHANGED <<quietVars, signals, statusBus, pipe, task, channel, mobVars>>

\* The frame of connection w sent on the channel registered for its session.
Echo(w, nextHpc) ==
    LET c == JSON_BROADCASTERS[ws[w].sid]
        after == [ws EXCEPT ![w].hpc = nextHpc,
                            ![w].frame = IF nextHpc = "" THEN NoFrame ELSE @,
                            ![w].accepted = IF nextHpc = "" THEN FALSE ELSE @,
                            ![w].copies = IF nextHpc = "" THEN 0
                                          ELSE IF c # NoChild THEN @ + 1 ELSE @]
    IN IF c # NoChild
       THEN /\ channel' = [channel EXCEPT ![c] = IF Len(@) = ChannelCapacity
                                                THEN Append(Tail(@), ws[w].frame.data)
                                                ELSE Append(@, ws[w].frame.data)]
            /\ ws' = Receivers(after, c)
       ELSE /\ ws' = after
            /\ UNCHANGED channel

\* lib.rs 1867-1875: write_to_process sends the data on the session's channel.
WsEcho1(w) ==
    /\ ws[w].hpc = "echo1"
    /\ Echo(w, "echo2")
    /\ UNCHANGED <<quietVars, signals, statusBus, pipe, task, stdin, mobVars>>

\* lib.rs 3212-3218: the handler sends the text on the session's channel.
WsEcho2(w) ==
    /\ ws[w].hpc = "echo2"
    /\ Echo(w, "")
    /\ UNCHANGED <<quietVars, signals, statusBus, pipe, task, stdin, mobVars>>

\* lib.rs 3293-3320 with write_pty 1551-1564 and resize_pty 1568-1586: a
\* frame of a PTY session.  A Text frame that is a JSON document is a resize
\* when it has the type and the size, and is nothing otherwise; a Text frame
\* that is no JSON document and a Binary frame are written to the PTY, which
\* blocks while the PTY's input buffer is full.
WsHandlePty(w) ==
    /\ ws[w].hpc = "write"
    /\ ws[w].variant = "pty"
    /\ LET f == ws[w].frame
           c == PTY_SESSIONS[ws[w].sid]
           json == from_str(f.data)
           isInput == (f.op = "Text" /\ ~json.ok) \/ f.op = "Binary"
           isResize == f.op = "Text" /\ json.ok /\ json.type = "resize"
                          /\ json.cols >= 0 /\ json.rows >= 0
       IN /\ (isInput /\ c # NoChild) => Len(stdin[c]) < StdinCapacity
          /\ stdin' = IF isInput /\ c # NoChild
                      THEN [stdin EXCEPT ![c] = Append(@, f.data)]
                      ELSE stdin
          /\ child' = IF isResize /\ c # NoChild
                      THEN [child EXCEPT ![c].size = [cols |-> json.cols, rows |-> json.rows]]
                      ELSE child
          /\ ws' = [ws EXCEPT ![w].frame = NoFrame, ![w].hpc = "",
                              ![w].wrote = @ \/ (isInput /\ c # NoChild)]
    /\ UNCHANGED <<sessions, terminal_buffers, storeVars, PTY_SESSIONS, PTY_BROADCASTERS, JSON_PROCESSES,
                   JSON_BROADCASTERS, PAIRED_DEVICES, osAlive, killers, cleanup, req,
                   startup, authVars, signals, statusBus, pipe, task, channel, mobVars>>

\* The program in the PTY reads what was written to the master.
PtyChildReads(c) ==
    /\ child[c].variant = "pty"
    /\ stdin[c] # <<>>
    /\ stdin' = [stdin EXCEPT ![c] = Tail(@)]
    /\ UNCHANGED <<quietVars, signals, statusBus, ws, pipe, task, channel, mobVars>>

\* lib.rs 3194-3199, 3280-3285, 3372-3376: ping_interval ticks and the send
\* task writes a Ping; nothing looks at whether the last one was answered.
WsPing(w) ==
    /\ ws[w].pc = "streaming"
    /\ ws[w].unanswered < MaxPings
    /\ ws' = [ws EXCEPT ![w].unanswered = @ + 1]
    /\ UNCHANGED <<quietVars, signals, statusBus, outVars, mobVars>>

\* The client closes the socket while the receive task waits for a frame.
\* lib.rs 3232, 3238-3241, 3318, 3324-3328: the receive task of handle_ws
\* ends and handle_ws returns; the send task, whose JoinHandle is dropped,
\* goes on until a write to the socket fails.  lib.rs 3382-3390:
\* handle_ws_status aborts its send task.
WsClientClose(w) ==
    /\ ws[w].pc \in {"streaming", "recv_only"}
    /\ ws[w].frame = NoFrame
    /\ ws' = [ws EXCEPT ![w] = IF ws[w].pc = "streaming" /\ ws[w].kind = "session"
                               THEN [@ EXCEPT !.pc = "send_only"]
                               ELSE ClosedWs]
    /\ UNCHANGED <<quietVars, signals, statusBus, outVars, mobVars>>

\* lib.rs 3177-3179, 3189-3191, 3196-3198 and the same in the PTY branch:
\* sender.send fails on the closed socket, for an item taken from a channel
\* or for a ping, and the send task breaks out of its loop.
WsSendFails(w) ==
    /\ ws[w].pc \in {"send_only", "send_end"}
    /\ ws' = [ws EXCEPT ![w] = ClosedWs]
    /\ UNCHANGED <<quietVars, signals, statusBus, outVars, mobVars>>

(***************************************************************************)
(* WebSocket /api/ws/mobile (handle_ws_mobile): one connection per client, *)
(* with an auth frame, subscriptions and commands.                         *)
(***************************************************************************)
\* accepted and copies are those of the send_message frame in hand, as for
\* the per-session WebSocket.
ClosedMob == [pc |-> "closed", authenticated |-> FALSE, sid |-> "", token |-> NoToken,
              rows |-> {}, run |-> {}, born |-> 0, accepted |-> FALSE, copies |-> 0]

\* Texts of terminal_buffers that hold at least one JSON message.
JsonTexts == {"{}"}

\* lib.rs 288-316: the messages parsed from the stored buffer, or None.
get_session_history(s) ==
    IF load_terminal_buffer(s).some /\ load_terminal_buffer(s).text \in JsonTexts
    THEN "some" ELSE "none"

\* tx.send(...) on the client's own channel.
Enqueue(m, msg) == mobq' = [mobq EXCEPT ![m] = Append(@, msg)]

\* The handler waits for the next frame (receiver.next().await).
AwaitsFrame(m) == mob[m].pc = "open"

\* The client sends a frame that is answered only while fewer than MaxQueue
\* messages wait for it.
ClientReads(m) == Len(mobq[m]) < MaxQueue

\* lib.rs 3409-3423: the client is registered, not yet authenticated.  born
\* is the number of spawns made before.
MobConnect(m) ==
    /\ mob[m].pc = "closed"
    /\ MOBILE_CLIENTS' = [MOBILE_CLIENTS EXCEPT ![m] = [present |-> TRUE, subscribed_sessions |-> {}]]
    /\ mob' = [mob EXCEPT ![m] = [ClosedMob EXCEPT !.pc = "open",
                                                   !.born = Cardinality(ChildIds \ FreeChildren)]]
    /\ mobq' = [mobq EXCEPT ![m] = <<>>]
    /\ UNCHANGED <<quietVars, signals, statusBus, ws, outVars>>

\* lib.rs 3467-3481: an auth frame.  With PAIRED_DEVICES empty the client is
\* accepted (no_devices || ... does not evaluate is_valid_token).
MobAuthDevices(m, token) ==
    /\ AwaitsFrame(m)
    /\ ClientReads(m)
    /\ IF PAIRED_DEVICES = {}
       THEN /\ mob' = [mob EXCEPT ![m].pc = "snap_load", ![m].authenticated = TRUE]
            /\ Enqueue(m, Msg("auth_success", "", "", FALSE, NoChild))
       ELSE /\ mob' = [mob EXCEPT ![m].pc = "auth_token", ![m].token = token]
            /\ UNCHANGED mobq
    /\ UNCHANGED <<quietVars, signals, statusBus, ws, outVars, MOBILE_CLIENTS>>

\* An auth check that accepts every token that is not empty.
MobAuthAccepts_NonEmpty(m) == mob[m].token # NoToken

\* lib.rs 3477: is_valid_token(token)
MobAuthAccepts(m) == is_valid_token(mob[m].token)

\* lib.rs 3477-3481 and 3525-3530
MobAuthToken(m) ==
    /\ mob[m].pc = "auth_token"
    /\ IF MobAuthAccepts(m)
       THEN /\ mob' = [mob EXCEPT ![m].pc = "snap_load", ![m].authenticated = TRUE,
                                  ![m].token = NoToken]
            /\ Enqueue(m, Msg("auth_success", "", "", FALSE, NoChild))
       ELSE /\ mob' = [mob EXCEPT ![m].pc = "open", ![m].token = NoToken]
            /\ Enqueue(m, Msg("auth_error", "", "", FALSE, NoChild))
    /\ UNCHANGED <<quietVars, signals, statusBus, ws, outVars, MOBILE_CLIENTS>>

\* lib.rs 3484: load_sessions()
MobSnapLoad(m) ==
    /\ mob[m].pc = "snap_load"
    /\ mob' = [mob EXCEPT ![m].pc = "snap_json", ![m].rows = {s \in SessionIds : HasRow(s)}]
    /\ UNCHANGED <<quietVars, signals, statusBus, ws, outVars, MOBILE_CLIENTS, mobq>>

\* lib.rs 3485-3488
MobSnapJson(m) ==
    /\ mob[m].pc = "snap_json"
    /\ mob' = [mob EXCEPT ![m].pc = "snap_pty", ![m].run = Keys(JSON_BROADCASTERS)]
    /\ UNCHANGED <<quietVars, signals, statusBus, ws, outVars, MOBILE_CLIENTS, mobq>>

\* lib.rs 3489-3524: the session_list with every row's running flag.
MobSnapPty(m) ==
    /\ mob[m].pc = "snap_pty"
    /\ Enqueue(m, [Msg("session_list", "", "", FALSE, NoChild) EXCEPT
                     !.list = (mob[m].run \cup Keys(PTY_SESSIONS)) \cap mob[m].rows])
    /\ mob' = [mob EXCEPT ![m].pc = "open", ![m].rows = {}, ![m].run = {}]
    /\ UNCHANGED <<quietVars, signals, statusBus, ws, outVars, MOBILE_CLIENTS>>

\* A check of the authenticated flag that every connection passes.
Authenticated_Always(m) == mob[m].pc # "closed"

\* lib.rs 3534, 3594, 3642: the handler's authenticated flag.
Authenticated(m) == mob[m].authenticated

\* lib.rs 3533-3557: a subscribe frame; s is "" when sessionId is missing.
MobSubscribe(m, s) ==
    /\ AwaitsFrame(m)
    /\ ClientReads(m)
    /\ IF ~Authenticated(m)
       THEN /\ Enqueue(m, Msg("error", "", "Not authenticated", FALSE, NoChild))
            /\ UNCHANGED <<MOBILE_CLIENTS, mob>>
       ELSE IF s = ""
            THEN /\ Enqueue(m, Msg("error", "", "sessionId required", FALSE, NoChild))
                 /\ UNCHANGED <<MOBILE_CLIENTS, mob>>
            ELSE /\ MOBILE_CLIENTS' = [MOBILE_CLIENTS EXCEPT
                                         ![m].subscribed_sessions = @ \cup {s}]
                 /\ mob' = [mob EXCEPT ![m].pc = "sub_history", ![m].sid = s]
                 /\ UNCHANGED mobq
    /\ UNCHANGED <<quietVars, signals, statusBus, ws, outVars>>

\* lib.rs 3559-3566: chat_history, when there is a history.
MobSubHistory(m) ==
    /\ mob[m].pc = "sub_history"
    /\ IF get_session_history(mob[m].sid) = "some"
       THEN Enqueue(m, Msg("chat_history", mob[m].sid, "", FALSE, NoChild))
       ELSE UNCHANGED mobq
    /\ mob' = [mob EXCEPT ![m].pc = "sub_status"]
    /\ UNCHANGED <<quietVars, signals, statusBus, ws, outVars, MOBILE_CLIENTS>>

\* lib.rs 3568-3580: session_status with running = JSON_BROADCASTERS has the id.
MobSubStatus(m) ==
    /\ mob[m].pc = "sub_status"
    /\ Enqueue(m, Msg("session_status", mob[m].sid, "running",
                      mob[m].sid \in Keys(JSON_BROADCASTERS), NoChild))
    /\ mob' = [mob EXCEPT ![m].pc = "open", ![m].sid = ""]
    /\ UNCHANGED <<quietVars, signals, statusBus, ws, outVars, MOBILE_CLIENTS>>

\* lib.rs 3583-3591
MobUnsubscribe(m, s) ==
    /\ AwaitsFrame(m)
    /\ MOBILE_CLIENTS' = [MOBILE_CLIENTS EXCEPT ![m].subscribed_sessions = @ \ {s}]
    /\ UNCHANGED <<quietVars, signals, statusBus, ws, outVars, mob, mobq>>

\* lib.rs 3593-3622 with write_to_process 1861-1866: a send_message frame;
\* try_send fails when the stdin channel is full.
MobSendMessage(m, s, hasContent) ==
    /\ AwaitsFrame(m)
    /\ ClientReads(m)
    /\ IF ~Authenticated(m)
       THEN /\ Enqueue(m, Msg("error", "", "Not authenticated", FALSE, NoChild))
            /\ UNCHANGED <<mob, stdin>>
       ELSE IF s = "" \/ ~hasContent
            THEN /\ Enqueue(m, Msg("error", "", "sessionId and content required", FALSE, NoChild))
                 /\ UNCHANGED <<mob, stdin>>
            ELSE LET c == JSON_PROCESSES[s] IN
                   /\ UNCHANGED mobq
                   /\ IF c # NoChild /\ Len(stdin[c]) < StdinCapacity
                      THEN /\ stdin' = [stdin EXCEPT ![c] = Append(@, "content")]
                           /\ mob' = [mob EXCEPT ![m].pc = "send_echo1", ![m].sid = s,
                                                 ![m].accepted = TRUE]
                      ELSE /\ UNCHANGED stdin
                           /\ mob' = [mob EXCEPT ![m].pc = "send_echo2", ![m].sid = s]
    /\ UNCHANGED <<quietVars, signals, statusBus, ws, pipe, task, channel, MOBILE_CLIENTS>>

\* lib.rs 1867-1875: write_to_process sends the data on the session's channel.
MobSendEcho1(m) ==
    /\ mob[m].pc = "send_echo1"
    /\ IF JSON_BROADCASTERS[mob[m].sid] # NoChild
       THEN ChannelSend(JSON_BROADCASTERS[mob[m].sid], "content")
       ELSE UNCHANGED <<channel, ws>>
    /\ mob' = [mob EXCEPT ![m].pc = "send_echo2",
                          ![m].copies = IF JSON_BROADCASTERS[mob[m].sid] # NoChild
                                        THEN @ + 1 ELSE @]
    /\ UNCHANGED <<quietVars, signals, statusBus, pipe, task, stdin, MOBILE_CLIENTS, mobq>>

\* lib.rs 3624-3630: the handler sends the content on the session's channel.
MobSendEcho2(m) ==
    /\ mob[m].pc = "send_echo2"
    /\ IF JSON_BROADCASTERS[mob[m].sid] # NoChild
       THEN ChannelSend(JSON_BROADCASTERS[mob[m].sid], "content")
       ELSE UNCHANGED <<channel, ws>>
    /\ mob' = [mob EXCEPT ![m].pc = "open", ![m].sid = "", ![m].accepted = FALSE,
                          ![m].copies = 0]
    /\ UNCHANGED <<quietVars, signals, statusBus, pipe, task, stdin, MOBILE_CLIENTS, mobq>>

\* lib.rs 3641-3649: an interrupt frame; without authentication or with an
\* empty sessionId nothing is done.
MobInterrupt(m, s) ==
    /\ AwaitsFrame(m)
    /\ IF Authenticated(m) /\ s # ""
       THEN mob' = [mob EXCEPT ![m].pc = "interrupt", ![m].sid = s]
       ELSE UNCHANGED mob
    /\ UNCHANGED <<quietVars, signals, statusBus, ws, outVars, MOBILE_CLIENTS, mobq>>

\* lib.rs 1886-1897: SIGINT to the child_id registered in JSON_PROCESSES.
interrupt_json_process(s) ==
    LET c == JSON_PROCESSES[s] IN
      IF c # NoChild /\ child[c].pid > 0
      THEN signals' = signals \cup {<<child[c].pid, "SIGINT", "handle_ws_mobile">>}
      ELSE UNCHANGED signals

\* lib.rs 3648: let _ = interrupt_json_process(session_id)
MobInterruptCall(m) ==
    /\ mob[m].pc = "interrupt"
    /\ interrupt_json_process(mob[m].sid)
    /\ mob' = [mob EXCEPT ![m].pc = "open", ![m].sid = ""]
    /\ UNCHANGED <<quietVars, statusBus, ws, outVars, MOBILE_CLIENTS, mobq>>

\* lib.rs 3428-3441: the send task takes the next message off the client's
\* channel and writes it to the socket.
MobForward(m) ==
    /\ mob[m].pc # "closed"
    /\ mobq[m] # <<>>
    /\ mobq' = [mobq EXCEPT ![m] = Tail(@)]
    /\ UNCHANGED <<quietVars, signals, statusBus, ws, outVars, MOBILE_CLIENTS, mob>>

\* lib.rs 3663-3674: the connection ends; the client is removed.
MobClose(m) ==
    /\ mob[m].pc = "open"
    /\ MOBILE_CLIENTS' = [MOBILE_CLIENTS EXCEPT ![m] = NoClient]
    /\ mob' = [mob EXCEPT ![m] = ClosedMob]
    /\ mobq' = [mobq EXCEPT ![m] = <<>>]
    /\ UNCHANGED <<quietVars, signals, statusBus, ws, outVars>>

(***************************************************************************)
(* Pairing: api_request_pairing and api_pair.  Time is in milliseconds;    *)
(* the clock steps through the instants of a specification.                *)
(***************************************************************************)
PairingTtlSecs == 300
RateWindowSecs == 900
MaxPinAttempts == 5

PairIds == 1..MaxPairings
PairCalls == 1..NumPairCalls
PinCalls == 1..NumPinCalls
Codes == {"123456", "654321"}
Ips == {"ip1", "ip2"}
NoPin == ""
NoRequest == [code |-> "", created_at |-> -1]
\* An entry of PIN_RATE_LIMIT.  since is the instant at which or_insert
\* created the entry, the time of the oldest failure that attempts counts;
\* the entry of the code does not keep it, and only SpecLimit records it.
NoEntry == [attempts |-> 0, last |-> -1, since |-> -1]

\* chrono::Duration::num_seconds: whole seconds, truncated toward zero.
num_seconds(ms) == IF ms >= 0 THEN ms \div 1000 ELSE -((-ms) \div 1000)

\* lib.rs 737-744, 2509, 2618: generate_token yields a token not seen before.
FreshTokens == Tokens \ PAIRED_DEVICES
generate_token == CHOOSE tk \in FreshTokens : TRUE

Tick(instants) ==
    /\ \E i \in instants : i > now /\ now' = i
    /\ UNCHANGED <<supVars, storeVars, PAIRED_DEVICES, PAIRING_REQUESTS, PIN_RATE_LIMIT, remote_pin,
                   issued, pairMints, pairCall, pinCall>>

\* lib.rs 2431-2465: a fresh pairing id and a code, stored with the time.
api_request_pairing(code) ==
    /\ issued < MaxPairings
    /\ issued' = issued + 1
    /\ PAIRING_REQUESTS' = [PAIRING_REQUESTS EXCEPT ![issued + 1] = [code |-> code, created_at |-> now]]
    /\ UNCHANGED <<supVars, storeVars, PAIRED_DEVICES, PIN_RATE_LIMIT, now, remote_pin, pairMints,
                   pairCall, pinCall>>

IdlePair == [pairing |-> 0, code |-> "", pc |-> "idle", resp |-> 0, token |-> NoToken]

\* lib.rs 2468-2481: POST /api/auth/pair arrives; a missing field answers 400.
PairBegin(k, p, code) ==
    /\ pairCall[k].pc = "idle"
    /\ pairCall' = [pairCall EXCEPT ![k] =
                      IF code = ""
                      THEN [IdlePair EXCEPT !.pairing = p, !.pc = "done", !.resp = 400]
                      ELSE [IdlePair EXCEPT !.pairing = p, !.code = code, !.pc = "verify"]]
    /\ UNCHANGED <<supVars, storeVars, PAIRED_DEVICES, PAIRING_REQUESTS, PIN_RATE_LIMIT, now, remote_pin,
                   issued, pairMints, pinCall>>

\* PairingValid with the age compared by <= instead of <.
PairingValid_AgeInclusive(p, code) ==
    /\ PAIRING_REQUESTS[p] # NoRequest
    /\ PAIRING_REQUESTS[p].code = code
    /\ num_seconds(now - PAIRING_REQUESTS[p].created_at) <= PairingTtlSecs

\* lib.rs 2486-2492: the request exists, the code matches and
\* age.num_seconds() < 300.
PairingValid(p, code) ==
    /\ PAIRING_REQUESTS[p] # NoRequest
    /\ PAIRING_REQUESTS[p].code = code
    /\ num_seconds(now - PAIRING_REQUESTS[p].created_at) < PairingTtlSecs

\* lib.rs 2484-2500: verify under the lock; 401 when not valid.
PairVerify(k) ==
    /\ pairCall[k].pc = "verify"
    /\ IF PairingValid(pairCall[k].pairing, pairCall[k].code)
       THEN pairCall' = [pairCall EXCEPT ![k].pc = "remove"]
       ELSE pairCall' = [pairCall EXCEPT ![k].pc = "done", ![k].resp = 401]
    /\ UNCHANGED <<supVars, storeVars, PAIRED_DEVICES, PAIRING_REQUESTS, PIN_RATE_LIMIT, now, remote_pin,
                   issued, pairMints, pinCall>>

\* lib.rs 2503-2506: requests.remove(pairing_id), a second lock scope.
PairRemove(k) ==
    /\ pairCall[k].pc = "remove"
    /\ PAIRING_REQUESTS' = [PAIRING_REQUESTS EXCEPT ![pairCall[k].pairing] = NoRequest]
    /\ pairCall' = [pairCall EXCEPT ![k].pc = "insert"]
    /\ UNCHANGED <<supVars, storeVars, PAIRED_DEVICES, PIN_RATE_LIMIT, now, remote_pin, issued,
                   pairMints, pinCall>>

\* lib.rs 2509-2537: mint a token, insert the device, answer with the token.
PairInsertDevice(k) ==
    /\ pairCall[k].pc = "insert"
    /\ FreshTokens # {}
    /\ PAIRED_DEVICES' = PAIRED_DEVICES \cup {generate_token}
    /\ pairMints' = [pairMints EXCEPT ![pairCall[k].pairing] = @ \cup {generate_token}]
    /\ pairCall' = [pairCall EXCEPT ![k].pc = "done", ![k].resp = 200, ![k].token = generate_token]
    /\ UNCHANGED <<supVars, storeVars, PAIRING_REQUESTS, PIN_RATE_LIMIT, now, remote_pin, issued, pinCall>>

PairReturn(k) ==
    /\ pairCall[k].pc = "done"
    /\ pairCall' = [pairCall EXCEPT ![k] = IdlePair]
    /\ UNCHANGED <<supVars, storeVars, PAIRED_DEVICES, PAIRING_REQUESTS, PIN_RATE_LIMIT, now, remote_pin,
                   issued, pairMints, pinCall>>

(***************************************************************************)
(* PIN login: api_pin_login.                                               *)
(***************************************************************************)
IdlePin == [ip |-> "", pin |-> "", pc |-> "idle", resp |-> 0, token |-> NoToken]

\* lib.rs 2551-2555: POST /api/auth/pin-login arrives from client_ip; pin is
\* the body's "pin" field, or NoPin when it is absent.
PinBegin(k, ip, pin) ==
    /\ pinCall[k].pc = "idle"
    /\ pinCall' = [pinCall EXCEPT ![k] = [IdlePin EXCEPT !.ip = ip, !.pin = pin, !.pc = "rate"]]
    /\ UNCHANGED <<supVars, storeVars, PAIRED_DEVICES, PAIRING_REQUESTS, PIN_RATE_LIMIT, now, remote_pin,
                   issued, pairMints, pairCall>>

\* lib.rs 2561: last_time.elapsed()
elapsed(ip) == now - PIN_RATE_LIMIT[ip].last

\* RateLimited with the attempts compared by > instead of >=.
RateLimited_AboveLimit(ip) ==
    /\ PIN_RATE_LIMIT[ip] # NoEntry
    /\ elapsed(ip) < RateWindowSecs * 1000
    /\ PIN_RATE_LIMIT[ip].attempts > MaxPinAttempts

\* lib.rs 2560-2562: an entry exists, elapsed < 900 s and attempts >= 5.
RateLimited(ip) ==
    /\ PIN_RATE_LIMIT[ip] # NoEntry
    /\ elapsed(ip) < RateWindowSecs * 1000
    /\ PIN_RATE_LIMIT[ip].attempts >= MaxPinAttempts

\* lib.rs 2558-2574: 429 when limited; an entry whose window has passed is
\* removed.
PinRateCheck(k) ==
    /\ pinCall[k].pc = "rate"
    /\ LET ip == pinCall[k].ip IN
         IF RateLimited(ip)
         THEN /\ pinCall' = [pinCall EXCEPT ![k].pc = "done", ![k].resp = 429]
              /\ UNCHANGED PIN_RATE_LIMIT
         ELSE /\ pinCall' = [pinCall EXCEPT ![k].pc = "evaluate"]
              /\ PIN_RATE_LIMIT' =
                    IF PIN_RATE_LIMIT[ip] # NoEntry /\ elapsed(ip) >= RateWindowSecs * 1000
                    THEN [PIN_RATE_LIMIT EXCEPT ![ip] = NoEntry]
                    ELSE PIN_RATE_LIMIT
    /\ UNCHANGED <<supVars, storeVars, PAIRED_DEVICES, PAIRING_REQUESTS, now, remote_pin, issued,
                   pairMints, pairCall>>

\* lib.rs 2576-2596: missing pin 400, PIN not configured 400, else compare.
PinEvaluate(k) ==
    /\ pinCall[k].pc = "evaluate"
    /\ pinCall' = [pinCall EXCEPT
                     ![k].pc = IF pinCall[k].pin = NoPin \/ remote_pin = NoPin THEN "done"
                               ELSE IF pinCall[k].pin = remote_pin THEN "clear" ELSE "record",
                     ![k].resp = IF pinCall[k].pin = NoPin \/ remote_pin = NoPin THEN 400 ELSE 0]
    /\ UNCHANGED <<supVars, storeVars, PAIRED_DEVICES, PAIRING_REQUESTS, PIN_RATE_LIMIT, now, remote_pin,
                   issued, pairMints, pairCall>>

\* lib.rs 2597-2608: entry(client_ip).or_insert((0, now)); += 1; last = now; 401.
RecordFailure(k, since) ==
    /\ pinCall[k].pc = "record"
    /\ PIN_RATE_LIMIT' = [PIN_RATE_LIMIT EXCEPT ![pinCall[k].ip] =
                             [attempts |-> @.attempts + 1, last |-> now, since |-> since]]
    /\ pinCall' = [pinCall EXCEPT ![k].pc = "done", ![k].resp = 401]
    /\ UNCHANGED <<supVars, storeVars, PAIRED_DEVICES, PAIRING_REQUESTS, now, remote_pin, issued,
                   pairMints, pairCall>>

PinRecordFailure(k) == RecordFailure(k, NoEntry.since)

\* The same step with the instant of or_insert kept in the entry.
PinRecordFailureSince(k) ==
    LET entry == PIN_RATE_LIMIT[pinCall[k].ip]
    IN RecordFailure(k, IF entry = NoEntry THEN now ELSE entry.since)

\* lib.rs 2611-2615: success removes the entry of the client ip.
PinClearRateLimit(k) ==
    /\ pinCall[k].pc = "clear"
    /\ PIN_RATE_LIMIT' = [PIN_RATE_LIMIT EXCEPT ![pinCall[k].ip] = NoEntry]
    /\ pinCall' = [pinCall EXCEPT ![k].pc = "insert"]
    /\ UNCHANGED <<supVars, storeVars, PAIRED_DEVICES, PAIRING_REQUESTS, now, remote_pin, issued,
                   pairMints, pairCall>>

\* lib.rs 2617-2647: mint a token, insert the device, answer with the token.
PinInsertDevice(k) ==
    /\ pinCall[k].pc = "insert"
    /\ FreshTokens # {}
    /\ PAIRED_DEVICES' = PAIRED_DEVICES \cup {generate_token}
    /\ pinCall' = [pinCall EXCEPT ![k].pc = "done", ![k].resp = 200, ![k].token = generate_token]
    /\ UNCHANGED <<supVars, storeVars, PAIRING_REQUESTS, PIN_RATE_LIMIT, now, remote_pin, issued,
                   pairMints, pairCall>>

PinReturn(k) ==
    /\ pinCall[k].pc = "done"
    /\ pinCall' = [pinCall EXCEPT ![k] = IdlePin]
    /\ UNCHANGED <<supVars, storeVars, PAIRED_DEVICES, PAIRING_REQUESTS, PIN_RATE_LIMIT, now, remote_pin,
                   issued, pairMints, pairCall>>

(***************************************************************************)
(* The state at process start: the store is what a previous instance left  *)
(* (only JSON sessions ever get a running_pid), the registries are empty,  *)
(* the recovery thread is about to run.                                    *)
(***************************************************************************)
OldPidOf(s) == IF s = "s1" THEN 101 ELSE 102

StartupRows(s) ==
    {NoRow, [agent_type |-> "shell", running_pid |-> NoPid],
     [agent_type |-> "claude-json", running_pid |-> NoPid],
     [agent_type |-> "claude-json", running_pid |-> OldPidOf(s)]}

\* No child has written anything.
InitOutput ==
    /\ pipe = [c \in ChildIds |-> NoPipe]
    /\ task = [c \in ChildIds |-> [st \in Streams |-> IdleTask]]
    /\ channel = [c \in ChildIds |-> <<>>]
    /\ stdin = [c \in ChildIds |-> <<>>]

\* No mobile client is connected.
InitMobile ==
    /\ MOBILE_CLIENTS = [m \in MobIds |-> NoClient]
    /\ mob = [m \in MobIds |-> ClosedMob]
    /\ mobq = [m \in MobIds |-> <<>>]

\* No session runs and no request is in flight.
InitLive ==
    /\ PTY_SESSIONS = EmptyTable
    /\ PTY_BROADCASTERS = EmptyTable
    /\ JSON_PROCESSES = EmptyTable
    /\ JSON_BROADCASTERS = EmptyTable
    /\ child = [c \in ChildIds |-> UnusedChild]
    /\ signals = {}
    /\ killers = {}
    /\ statusBus = <<>>
    /\ req = [r \in ReqIds |-> IdleReq]
    /\ ws = [w \in WsIds |-> ClosedWs]
    /\ terminal_buffers = [s \in SessionIds |-> NoBuffer]
    /\ recently_closed = [i \in ClosedIds |-> NoStamp]
    /\ rcCall = IdleRc
    /\ saveCall = IdleSave
    /\ InitOutput

\* The SQLite library does not enforce foreign keys unless told to.
InitTables == InitLive /\ foreign_keys = FALSE

InitRegistries == InitTables /\ InitMobile

\* No pairing request, no rate-limit entry, no login in flight.
InitAuth ==
    /\ PAIRING_REQUESTS = [p \in PairIds |-> NoRequest]
    /\ PIN_RATE_LIMIT = [ip \in Ips |-> NoEntry]
    /\ now = 0
    /\ issued = 0
    /\ pairMints = [p \in PairIds |-> {}]
    /\ pairCall = [k \in PairCalls |-> IdlePair]
    /\ pinCall = [k \in PinCalls |-> IdlePin]

\* The store a previous instance left behind, and which of its children
\* are still running.
InitStore ==
    /\ sessions \in {f \in [SessionIds -> Rows \cup {NoRow}] : \A s \in SessionIds : f[s] \in StartupRows(s)}
    /\ osAlive \in SUBSET {sessions[s].running_pid : s \in {x \in SessionIds : sessions[x].running_pid # NoPid}}
    /\ cleanup = [pc |-> "query", rows |-> {}, cur |-> <<"", NoPid>>]
    /\ startup = [pids |-> [s \in SessionIds |-> sessions[s].running_pid], alive |-> osAlive]

\* The store when the recovery thread has finished and found no recorded PID.
InitRecovered ==
    /\ sessions \in {f \in [SessionIds -> Rows \cup {NoRow}] :
                        \A s \in SessionIds : f[s] \in StartupRows(s) /\ f[s].running_pid = NoPid}
    /\ osAlive = {}
    /\ cleanup = [pc |-> "done", rows |-> {}, cur |-> <<"", NoPid>>]
    /\ startup = [pids |-> [s \in SessionIds |-> NoPid], alive |-> {}]

JsonSupervisorOf(c) ==
    \/ \E ok \in BOOLEAN : JsonThreadStart(c, ok)
    \/ JsonInsertProcesses(c)
    \/ JsonInsertBroadcasters(c)
    \/ JsonReady(c)
    \/ JsonSavePid(c)
    \/ JsonStatusTrue(c)
    \/ JsonExitObserved(c)
    \/ JsonRemoveProcesses(c)
    \/ JsonRemoveBroadcasters(c)
    \/ JsonClearPid(c)
    \/ JsonStatusFalse(c)

PtySupervisorOf(c) ==
    \/ \E ok \in BOOLEAN : PtySpawnCommand(c, ok)
    \/ PtyInsertSessions(c)
    \/ PtyInsertBroadcasters(c)
    \/ PtyStatusTrue(c)
    \/ PtyReaderEof(c)
    \/ PtyRemoveSessions(c)
    \/ PtyRemoveBroadcasters(c)
    \/ PtyStatusFalse(c)

SupervisorOf(c) == JsonSupervisorOf(c) \/ PtySupervisorOf(c)

SupervisorStep == \E c \in ChildIds : SupervisorOf(c)

KillTimerStep == \E p \in Pids : KillTimerFires(p)

CleanupStep == CleanupQuery \/ CleanupNextRow \/ CleanupSigkill \/ CleanupClearPid

OsStep == \E p \in Pids : ProcessExit(p)

(***************************************************************************)
(* Spec: the session lifecycle driven by the desktop UI's commands, after  *)
(* startup recovery.                                                       *)
(***************************************************************************)
Init ==
    /\ InitRegistries
    /\ InitRecovered
    /\ InitAuth
    /\ remote_pin = NoPin
    /\ PAIRED_DEVICES = {}

UiStep ==
    \/ \E s \in SessionIds, cmd \in {"empty", "ok"} : UiSpawnJson(s, cmd)
    \/ \E s \in SessionIds : UiSpawnPty(s) \/ kill_pty(s) \/ kill_json_process(s)
    \/ \E s \in SessionIds, x \in BufferTexts : save_terminal_buffer(s, x)

Next == SupervisorStep \/ KillTimerStep \/ UiStep \/ OsStep

Spec == Init /\ [][Next]_vars

(***************************************************************************)
(* FairSpec: the lifecycle of one stored session under fair scheduling.    *)
(* Threads and tasks of the server are scheduled; a child process is under *)
(* no obligation to exit and the UI under none to issue a command.         *)
(***************************************************************************)
InitFair ==
    /\ Init
    /\ sessions = [s \in SessionIds |-> IF s = "s1"
                                        THEN [agent_type |-> "claude-json", running_pid |-> NoPid]
                                        ELSE NoRow]

NextFair ==
    \/ SupervisorStep
    \/ KillTimerStep
    \/ UiSpawnJson("s1", "ok") \/ UiSpawnPty("s1")
    \/ kill_pty("s1") \/ kill_json_process("s1")
    \/ OsStep

Fairness ==
    /\ \A c \in ChildIds : WF_vars(SupervisorOf(c))
    /\ WF_vars(KillTimerStep)

FairSpec == InitFair /\ [][NextFair]_vars /\ Fairness

(***************************************************************************)
(* SpecRecovery: process start.  setup_app (lib.rs 3943-3950) starts the   *)
(* web server and then the recovery thread, so sessions are spawned while  *)
(* cleanup_orphaned_processes runs.  Only JSON sessions record a PID.      *)
(***************************************************************************)
InitRecovery ==
    /\ InitRegistries
    /\ InitStore
    /\ \A s \in SessionIds : sessions[s].agent_type # "shell"
    /\ InitAuth
    /\ remote_pin = NoPin
    /\ PAIRED_DEVICES = {}

NextRecovery ==
    \/ CleanupStep
    \/ \E c \in ChildIds : JsonSupervisorOf(c)
    \/ \E s \in SessionIds : UiSpawnJson(s, "ok")
    \/ OsStep

SpecRecovery == InitRecovery /\ [][NextRecovery]_vars

(***************************************************************************)
(* SpecStart: concurrent POST /api/sessions/{id}/start requests.           *)
(***************************************************************************)
StartStep ==
    \E r \in ReqIds :
        \/ CheckAuthEmpty(r)
        \/ StartCheckPty(r) \/ StartCheckJson(r) \/ StartLoad(r) \/ StartCheckJsonAgain(r)
        \/ StartSpawnPty(r) \/ StartSpawned(r)
        \/ \E cmd \in {"empty", "ok"} : StartSpawnJson(r, cmd)
        \/ ApiReturn(r)

NextStart ==
    \/ \E r \in ReqIds, s \in SessionIds : ApiBegin(r, "start", s, "", NoHeader)
    \/ \E r \in ReqIds : StartSpawnTimeout(r)
    \/ StartStep
    \/ SupervisorStep
    \/ OsStep

\* A stored JSON session and a stored shell session, neither running.
InitStart ==
    /\ Init
    /\ sessions = [s \in SessionIds |->
                      [agent_type |-> IF s = "s1" THEN "claude-json" ELSE "shell",
                       running_pid |-> NoPid]]

SpecStart == InitStart /\ [][NextStart]_vars

(***************************************************************************)
(* SpecAccess: one client at a time calls the REST endpoints of a stored   *)
(* session; the device with token t1 is paired at the start or gets paired *)
(* on the way, the token t2 is never issued.                               *)
(***************************************************************************)
InitAccess ==
    /\ InitRegistries
    /\ InitRecovered
    /\ InitAuth
    /\ remote_pin = NoPin
    /\ sessions["s1"] # NoRow /\ sessions["s2"] = NoRow
    /\ PAIRED_DEVICES \in {{}, {"t1"}}

RestStep ==
    \E r \in ReqIds :
        \/ CheckAuthEmpty(r) \/ CheckAuthToken(r)
        \/ ListLoad(r) \/ ListPtyRunning(r) \/ ListJsonRunning(r)
        \/ CreateSave(r) \/ BufferLoad(r)
        \/ StartCheckPty(r) \/ StartCheckJson(r) \/ StartLoad(r) \/ StartCheckJsonAgain(r)
        \/ StartSpawnPty(r) \/ StartSpawned(r) \/ StartSpawnTimeout(r)
        \/ StartSpawnJson(r, "ok")
        \/ InterruptCheckJson(r) \/ InterruptSigint(r) \/ InterruptCheckPty(r) \/ InterruptEtx(r)
        \/ ApiReturn(r)

NextAccess ==
    \/ \E kind \in EndpointKinds, h \in Headers :
          ApiBegin(1, kind, "s1", IF kind = "create" THEN "claude-json" ELSE "", h)
    \/ RestStep
    \/ DevicePaired("t1")
    \/ SupervisorStep
    \/ OsStep

SpecAccess == InitAccess /\ [][NextAccess]_vars

(***************************************************************************)
(* SpecWs: the per-session and the status WebSocket while a JSON session   *)
(* and a PTY session run.                                                  *)
(***************************************************************************)
WsHeaders == {NoHeader, [scheme |-> "Bearer ", value |-> "t1"]}

WsStep ==
    \E w \in WsIds :
        \/ \E s \in SessionIds, h \in WsHeaders : WsConnect(w, "session", s, h)
        \/ \E h \in WsHeaders : WsConnect(w, "status", "", h)
        \/ WsClassify(w) \/ WsSubscribeChannel(w) \/ WsSubscribeStatus(w)
        \/ WsForwardStatus(w) \/ WsClientClose(w) \/ WsSendFails(w)
        \/ WsReceive(w, [op |-> "Text", data |-> "ls"])
        \/ WsWrite(w) \/ WsEcho1(w) \/ WsEcho2(w) \/ WsHandlePty(w)

NextWs ==
    \/ WsStep
    \/ \E c \in ChildIds : StdinTask(c) \/ PtyChildReads(c)
    \/ DevicePaired("t1")
    \/ SupervisorStep
    \/ (FreeChildren = ChildIds /\ UiSpawnJson("s1", "ok"))
    \/ (FreeChildren = {2} /\ UiSpawnPty("s2"))
    \/ OsStep

SpecWs == InitAccess /\ [][NextWs]_vars

(***************************************************************************)
(* SpecMobile: mobile clients connect, authenticate, subscribe and send    *)
(* commands while a JSON session and a PTY session run; the device with    *)
(* token t1 is paired at the start or gets paired on the way.              *)
(***************************************************************************)
FrameTokens == {NoToken, "t1", "t2"}
FrameSessions == {"", "s1"}

MobFrame(m) ==
    \/ \E tk \in FrameTokens : MobAuthDevices(m, tk)
    \/ \E s \in FrameSessions : MobSubscribe(m, s) \/ MobUnsubscribe(m, s) \/ MobInterrupt(m, s)
    \/ \E s \in FrameSessions, hasContent \in BOOLEAN : MobSendMessage(m, s, hasContent)

MobHandler(m) ==
    \/ MobAuthToken(m) \/ MobSnapLoad(m) \/ MobSnapJson(m) \/ MobSnapPty(m)
    \/ MobSubHistory(m) \/ MobSubStatus(m)
    \/ MobSendEcho1(m) \/ MobSendEcho2(m) \/ MobInterruptCall(m)

MobStep ==
    MobConnect(1) \/ MobFrame(1) \/ MobHandler(1) \/ MobForward(1) \/ MobClose(1)

\* The session s1 is started once, as a JSON or as a PTY session.
FirstSpawn(s) == FreeChildren = ChildIds /\ (UiSpawnJson(s, "ok") \/ UiSpawnPty(s))

NextMobile ==
    \/ MobStep
    \/ DevicePaired("t1")
    \/ save_terminal_buffer("s1", "{}")
    \/ FirstSpawn("s1")
    \/ SupervisorStep
    \/ \E c \in ChildIds : StdinTask(c)
    \/ OsStep

SpecMobile == InitStart /\ [][NextMobile]_vars

(***************************************************************************)
(* SpecStream: the output of the JSON session s1 and its fan-out to mobile *)
(* clients.  The clients of the initial state have authenticated while no  *)
(* device was paired, have received what was sent to them, and may have    *)
(* subscribed to s1.  No message is taken off a client's channel, so       *)
(* mobq[m] is everything that was sent to the client, in order.            *)
(***************************************************************************)
OpenMob == [ClosedMob EXCEPT !.pc = "open", !.authenticated = TRUE]

InitSubscribed ==
    /\ MOBILE_CLIENTS \in [MobIds -> {NoClient} \cup
                              [present : {TRUE}, subscribed_sessions : SUBSET {"s1"}]]
    /\ mob = [m \in MobIds |-> IF MOBILE_CLIENTS[m].present THEN OpenMob ELSE ClosedMob]
    /\ mobq = [m \in MobIds |-> <<>>]

InitStream ==
    /\ InitTables
    /\ InitRecovered
    /\ InitAuth
    /\ remote_pin = NoPin
    /\ PAIRED_DEVICES = {}
    /\ sessions = [s \in SessionIds |->
                      [agent_type |-> IF s = "s1" THEN "claude-json" ELSE "shell",
                       running_pid |-> NoPid]]
    /\ InitSubscribed

OutputStep ==
    \E c \in ChildIds, st \in Streams :
        \/ \E kind \in LineKinds : ChildWrites(c, st, kind)
        \/ TaskRead(c, st) \/ TaskFanout(c, st) \/ TaskSend(c, st)

\* Client 1 acts; client 2 stays as the initial state has it.
StreamClient ==
    \/ MobConnect(1) \/ MobClose(1)
    \/ MobSubscribe(1, "s1") \/ MobSubHistory(1) \/ MobSubStatus(1)
    \/ MobUnsubscribe(1, "s1")

NextStream ==
    \/ StreamClient
    \/ (FreeChildren = ChildIds /\ UiSpawnJson("s1", "ok"))
    \/ \E c \in ChildIds : JsonSupervisorOf(c)
    \/ OutputStep
    \/ OsStep

SpecStream == InitStream /\ [][NextStream]_vars

(***************************************************************************)
(* SpecBackpressure: the consumers of the output of the JSON session s1:   *)
(* a per-session WebSocket connection and the mobile clients of the        *)
(* initial state, each draining at its own pace.                           *)
(***************************************************************************)
ConsumerStep ==
    \/ WsConnect(1, "session", "s1", NoHeader)
    \/ WsClassify(1) \/ WsSubscribeChannel(1) \/ WsSubscribeStatus(1)
    \/ WsForwardOutput(1) \/ WsClientClose(1) \/ WsSendFails(1)
    \/ MobForward(2)

NextBackpressure ==
    \/ ConsumerStep
    \/ (FreeChildren = ChildIds /\ UiSpawnJson("s1", "ok"))
    \/ \E c \in ChildIds : JsonSupervisorOf(c)
    \/ OutputStep
    \/ OsStep

\* One mobile client at most, client 2.
InitBackpressure == InitStream /\ ~MOBILE_CLIENTS[1].present

SpecBackpressure == InitBackpressure /\ [][NextBackpressure]_vars

(***************************************************************************)
(* SpecSave: the UI saves and deletes the session s1 and its buffer while  *)
(* a child of s1 is spawned, runs and exits.                               *)
(***************************************************************************)
InitSave ==
    /\ InitLive
    /\ InitMobile
    /\ InitRecovered
    /\ InitAuth
    /\ remote_pin = NoPin
    /\ PAIRED_DEVICES = {}
    /\ foreign_keys \in BOOLEAN
    /\ sessions = [s \in SessionIds |->
                      IF s = "s1" THEN [agent_type |-> "claude-json", running_pid |-> NoPid]
                                  ELSE NoRow]

SaveStep ==
    \/ SaveSessionCount("s1", "claude-json")
    \/ SaveSessionInsert
    \/ save_terminal_buffer("s1", "x")
    \/ delete_terminal_buffer("s1")
    \/ delete_session("s1")

NextSave == SaveStep \/ FirstSpawn("s1") \/ SupervisorStep \/ OsStep

SpecSave == InitSave /\ [][NextSave]_vars

(***************************************************************************)
(* SpecStore and SpecClosed: the UI's store commands on terminal_buffers,  *)
(* sessions and recently_closed.  Every call opens its own connection and  *)
(* every statement is its own transaction, so the statements of two calls  *)
(* interleave.  The SQLite library enforces foreign keys by default or     *)
(* does not, depending on how it was built; no PRAGMA sets it.             *)
(***************************************************************************)
StoreTexts == BufferTexts \cup JsonTexts

InitStoreCommands ==
    /\ InitLive
    /\ InitMobile
    /\ InitRecovered
    /\ InitAuth
    /\ remote_pin = NoPin
    /\ PAIRED_DEVICES = {}
    /\ foreign_keys \in BOOLEAN

BufferStep ==
    \/ \E s \in SessionIds, x \in StoreTexts : save_terminal_buffer(s, x)
    \/ \E s \in SessionIds : delete_terminal_buffer(s) \/ delete_session(s)

RecentlyClosedStep ==
    \/ \E k \in RcCalls :
          \/ \E id \in ClosedIds, closed_at \in Stamps : RcSaveInsert(k, id, closed_at)
          \/ RcSavePrune(k)
    \/ get_recently_closed
    \/ \E id \in ClosedIds : delete_recently_closed(id)

SpecStore == InitStoreCommands /\ [][BufferStep]_vars

\* SpecClosed: the recently_closed commands alone.
SpecClosed == InitStoreCommands /\ [][RecentlyClosedStep]_vars

(***************************************************************************)
(* SpecInput: one connection at a time to /api/ws/s1 while s1 runs, as a   *)
(* JSON session or as a PTY session: the frames the client sends, the      *)
(* session's channel, the keepalive, the end of the connection.            *)
(***************************************************************************)
InputStep ==
    \/ WsConnect(1, "session", "s1", NoHeader)
    \/ WsClassify(1) \/ WsSubscribeChannel(1) \/ WsSubscribeStatus(1)
    \/ \E frame \in WsFrames : WsReceive(1, frame)
    \/ WsWrite(1) \/ WsEcho1(1) \/ WsEcho2(1) \/ WsHandlePty(1)
    \/ WsForwardStatus(1) \/ WsForwardOutput(1) \/ WsPing(1)
    \/ WsClientClose(1) \/ WsSendFails(1)

NextInput ==
    \/ InputStep
    \/ FirstSpawn("s1")
    \/ SupervisorStep
    \/ \E c \in ChildIds : StdinTask(c) \/ PtyChildReads(c)
    \/ OsStep

SpecInput == InitStart /\ [][NextInput]_vars

(***************************************************************************)
(* SpecPair: pairing requests and concurrent complete-pairing calls.       *)
(***************************************************************************)
PairInstants == {500, 299500, 300000, 300999, 301500}

InitQuiet ==
    /\ InitRegistries
    /\ InitRecovered
    /\ sessions = [s \in SessionIds |-> NoRow]
    /\ InitAuth
    /\ PAIRED_DEVICES = {}

InitPair == InitQuiet /\ remote_pin = NoPin

NextPair ==
    \/ Tick(PairInstants)
    \/ \E code \in Codes : api_request_pairing(code)
    \/ \E k \in PairCalls, p \in PairIds, code \in Codes \cup {""} : PairBegin(k, p, code)
    \/ \E k \in PairCalls : PairVerify(k) \/ PairRemove(k) \/ PairInsertDevice(k) \/ PairReturn(k)

SpecPair == InitPair /\ [][NextPair]_vars

(***************************************************************************)
(* SpecPin: PIN logins from two client addresses.                          *)
(***************************************************************************)
PinInstants == {899999, 900000, 1800000}
Pins == {"1234", "0000"}

InitPin == InitQuiet /\ remote_pin \in {NoPin, "1234"}

NextPin ==
    \/ Tick(PinInstants)
    \/ \E k \in PinCalls, ip \in Ips, pin \in Pins \cup {NoPin} : PinBegin(k, ip, pin)
    \/ \E k \in PinCalls : \/ PinRateCheck(k) \/ PinEvaluate(k) \/ PinRecordFailure(k)
                           \/ PinClearRateLimit(k) \/ PinInsertDevice(k) \/ PinReturn(k)

SpecPin == InitPin /\ [][NextPin]_vars

(***************************************************************************)
(* SpecLimit: wrong and right PINs from one client address, spread over    *)
(* more than one rate-limit window.                                        *)
(***************************************************************************)
LimitInstants == {600000, 1200000}

InitLimit == InitQuiet /\ remote_pin = "1234"

NextLimit ==
    \/ Tick(LimitInstants)
    \/ \E k \in PinCalls, pin \in Pins : PinBegin(k, "ip1", pin)
    \/ \E k \in PinCalls : \/ PinRateCheck(k) \/ PinEvaluate(k) \/ PinRecordFailureSince(k)
                           \/ PinClearRateLimit(k) \/ PinInsertDevice(k) \/ PinReturn(k)

SpecLimit == InitLimit /\ [][NextLimit]_vars

(***************************************************************************)
(* Properties.                                                             *)
(***************************************************************************)
LiveTable(v) == IF v = "json" THEN JSON_PROCESSES ELSE PTY_SESSIONS
BroadcastTable(v) == IF v = "json" THEN JSON_BROADCASTERS ELSE PTY_BROADCASTERS
Variants == {"json", "pty"}

\* The child's process exists and runs.
ChildRunning(c) == child[c].pid # NoPid /\ child[c].pid \in osAlive

\* The child's process existed and has stopped; its supervisor has not yet
\* finished.
ChildStopped(c) == child[c].pid # NoPid /\ child[c].pid \notin osAlive

StatusSent(s, running) == \E i \in 1..Len(statusBus) : statusBus[i] = StatusEvent(s, running)

\* C1: in every state, for each variant, the live-session table and the
\* broadcast-channel table have the same key set.
C1_TablesSameKeys ==
    \A v \in Variants : Keys(LiveTable(v)) = Keys(BroadcastTable(v))

\* C2: whenever a session's child has stopped, eventually the session id is
\* absent from both tables of its variant and a session_status event with
\* running = false has been broadcast for it.
C2_StoppedChildIsPurged ==
    \A c \in ChildIds, s \in SessionIds, v \in Variants :
        /\ (ChildStopped(c) /\ child[c].session = s /\ child[c].variant = v)
               ~> (s \notin Keys(LiveTable(v)) /\ s \notin Keys(BroadcastTable(v)))
        /\ (ChildStopped(c) /\ child[c].session = s /\ child[c].variant = v)
               ~> StatusSent(s, FALSE)

\* C3: at no time do two children run that were started through
\* POST /api/sessions/{id}/start for the same session id.
C3_OneChildPerSession ==
    \A c, d \in ChildIds :
        (c # d /\ ChildRunning(c) /\ ChildRunning(d)
              /\ child[c].origin = "api" /\ child[d].origin = "api")
            => child[c].session # child[d].session

\* C4: after startup recovery, a row's running_pid is non-null only if the
\* live-session table contains the session.
C4_PidOnlyIfLive ==
    cleanup.pc = "done" =>
        \A s \in SessionIds :
            sessions[s].running_pid # NoPid
                => s \in Keys(JSON_PROCESSES) \cup Keys(PTY_SESSIONS)

\* C5: when cleanup_orphaned_processes completes, no row still records the
\* PID it had at startup, and no process whose recorded PID was alive at
\* startup is still running.
C5_RecoveryClearsAndKills ==
    [][(cleanup.pc # "done" /\ cleanup'.pc = "done") =>
          \A s \in SessionIds :
              startup.pids[s] # NoPid =>
                  /\ sessions'[s].running_pid # startup.pids[s]
                  /\ startup.pids[s] \in startup.alive => startup.pids[s] \notin osAlive']_vars

\* The claim's condition for a complete-pairing call: the pairing request
\* exists with that code and is less than 300 s old.
PairingLive(k) ==
    LET request == PAIRING_REQUESTS[pairCall[k].pairing] IN
        /\ request # NoRequest
        /\ request.code = pairCall[k].code
        /\ now - request.created_at < 300 * 1000

\* C6: a complete-pairing call goes on to mint a token iff the pairing
\* request with its id and code exists and is less than 300 s old; otherwise
\* it answers 401 and adds no device; a call that goes on answers 200 with a
\* token that is in the paired devices.
C6_PairSucceedsIffLive ==
    [][\A k \in PairCalls :
          /\ (pairCall[k].pc = "verify" /\ pairCall'[k].pc # "verify") =>
                /\ (pairCall'[k].pc = "remove") <=> PairingLive(k)
                /\ ~PairingLive(k) =>
                      /\ pairCall'[k].pc = "done" /\ pairCall'[k].resp = 401
                      /\ PAIRED_DEVICES' = PAIRED_DEVICES
          /\ (pairCall[k].pc = "insert" /\ pairCall'[k].pc # "insert") =>
                /\ pairCall'[k].resp = 200
                /\ pairCall'[k].token \in PAIRED_DEVICES' \ PAIRED_DEVICES]_vars

\* C6 witness: one call has answered 401 for a request that exists with the
\* presented code but is 300 s old or older, and one call has succeeded.
C6_Witness ==
    /\ \E k \in PairCalls :
          /\ pairCall[k].pc = "done" /\ pairCall[k].resp = 401
          /\ PAIRING_REQUESTS[pairCall[k].pairing] # NoRequest
          /\ PAIRING_REQUESTS[pairCall[k].pairing].code = pairCall[k].code
          /\ now - PAIRING_REQUESTS[pairCall[k].pairing].created_at >= 300 * 1000
    /\ \E k \in PairCalls : pairCall[k].pc = "done" /\ pairCall[k].resp = 200

\* C7: at most one token is minted for a pairing request.
C7_ConsumedAtMostOnce ==
    \A p \in PairIds : Cardinality(pairMints[p]) <= 1

\* The claim's condition for an address: 5 or more failures are recorded
\* and the last of them is less than 900 s old.
WindowOpen(ip) ==
    /\ PIN_RATE_LIMIT[ip] # NoEntry
    /\ PIN_RATE_LIMIT[ip].attempts >= 5
    /\ now - PIN_RATE_LIMIT[ip].last < 900 * 1000

Authorized(hdr) ==
    \/ PAIRED_DEVICES = {}
    \/ hdr.scheme = "Bearer " /\ hdr.value \in PAIRED_DEVICES

\* C9: a request to an authenticated REST endpoint enters the endpoint's
\* handler iff no device is paired or its bearer token is a key of the
\* paired devices; otherwise it is answered 401 and nothing but the
\* request itself changes.
C9_RestGate ==
    [][\A r \in ReqIds :
          (req[r].pc \in {"auth", "auth_token"} /\ req'[r].pc \notin {"auth", "auth_token"}) =>
              IF Authorized(req[r].hdr)
              THEN req'[r].pc = FirstPc(req[r].kind)
              ELSE /\ req'[r].pc = "done" /\ req'[r].resp = 401
                   /\ UNCHANGED <<sessions, terminal_buffers, storeVars, PTY_SESSIONS, PTY_BROADCASTERS,
                                  JSON_PROCESSES, JSON_BROADCASTERS, PAIRED_DEVICES, child,
                                  osAlive, signals, killers, statusBus>>]_vars

\* C9 witness: with a device paired, a start request with another token has
\* been answered 401 and a request with the paired token has been answered 200.
C9_Witness ==
    /\ PAIRED_DEVICES = {"t1"}
    /\ req[1].pc = "done" /\ req[1].resp = 401 /\ req[1].kind = "start"
    /\ StatusSent("s1", TRUE)

\* C10: while a device is paired, a WebSocket client without a valid bearer
\* token is forwarded no event and none of its input is written to a child.
C10_WsGate ==
    [][\A w \in WsIds :
          (PAIRED_DEVICES # {} /\ ~TokenAuthorizes(ws[w].hdr) /\ ws[w].pc = "streaming") =>
              /\ ws'[w].pos <= ws[w].pos
              /\ ws'[w].wrote = ws[w].wrote]_vars


\* The last message sent on a mobile client's channel in this step.
Enqueued(m, type) ==
    /\ Len(mobq'[m]) = Len(mobq[m]) + 1
    /\ mobq'[m][Len(mobq'[m])].type = type

\* C11: an auth frame on the mobile WebSocket succeeds iff no device is
\* paired or its token is a paired device's token; on success the
\* connection becomes authenticated and auth_success is enqueued, and the
\* handler takes no other frame before it has enqueued the session_list; on
\* failure auth_error is enqueued and the authenticated flag and the
\* subscription set stay as they are.
C11_MobileAuth ==
    [][\A m \in MobIds :
          /\ (mob[m].pc = "open" /\ mob'[m].pc = "auth_token") => PAIRED_DEVICES # {}
          /\ (\/ mob[m].pc = "open" /\ mob'[m].pc = "snap_load"
              \/ mob[m].pc = "auth_token" /\ mob'[m].pc # "auth_token") =>
                IF PAIRED_DEVICES = {} \/ mob[m].token \in PAIRED_DEVICES
                THEN /\ mob'[m].authenticated
                     /\ mob'[m].pc = "snap_load"
                     /\ Enqueued(m, "auth_success")
                ELSE /\ Enqueued(m, "auth_error")
                     /\ mob'[m].authenticated = mob[m].authenticated
                     /\ MOBILE_CLIENTS'[m] = MOBILE_CLIENTS[m]
          /\ (mob[m].pc \in {"snap_load", "snap_json", "snap_pty"} /\ mob'[m].pc # mob[m].pc) =>
                \/ mob'[m].pc \in {"snap_json", "snap_pty"} /\ mob[m].pc # "snap_pty"
                \/ mob'[m].pc = "open" /\ Enqueued(m, "session_list")]_vars

\* C11 witness: a client that authenticated has sent another auth frame,
\* with a token that is not paired, and is still authenticated.
C11_Witness ==
    \E m \in MobIds :
        /\ mob[m].authenticated
        /\ mobq[m] # <<>>
        /\ mobq[m][Len(mobq[m])].type = "auth_error"


\* C12: while no connected mobile client has authenticated, the frames the
\* clients send (subscribe, send_message, interrupt among them) leave every
\* client's subscription set as it is, write nothing to a child's stdin
\* channel or to a session's broadcast channel, and deliver no signal.
C12_UnauthenticatedNoEffect ==
    [][(\A m \in MobIds : ~mob[m].authenticated) =>
          /\ \A m \in MobIds :
                MOBILE_CLIENTS'[m].subscribed_sessions = MOBILE_CLIENTS[m].subscribed_sessions
          /\ \A c \in ChildIds : Len(stdin'[c]) <= Len(stdin[c])
          /\ channel' = channel
          /\ signals' = signals]_vars

\* C12 witness: with a device paired and a JSON child registered, a client
\* that has not authenticated was answered "Not authenticated".
C12_Witness ==
    \E m \in MobIds :
        /\ mob[m].pc = "open" /\ ~mob[m].authenticated
        /\ PAIRED_DEVICES # {}
        /\ JSON_PROCESSES["s1"] # NoChild /\ JSON_BROADCASTERS["s1"] # NoChild
        /\ mobq[m] # <<>>
        /\ mobq[m][Len(mobq[m])].key = "Not authenticated"


\* C13: a subscribe for session S from an authenticated client puts S into
\* the client's subscription set; the client is then sent the chat_history
\* of S (when S has a stored history) and after it a session_status for S
\* whose running flag is TRUE when S is registered in both tables of the
\* JSON or of the PTY variant, and FALSE when S is registered in none.
C13_SubscribeReply ==
    [][\A m \in MobIds :
          /\ (mob[m].pc = "open" /\ mob'[m].pc = "sub_history") =>
                mob'[m].sid \in MOBILE_CLIENTS'[m].subscribed_sessions
          /\ (mob[m].pc = "sub_history" /\ mob'[m].pc # "sub_history") =>
                /\ mob'[m].pc = "sub_status"
                /\ load_terminal_buffer(mob[m].sid) \in {Some(x) : x \in JsonTexts} => Enqueued(m, "chat_history")
          /\ (mob[m].pc = "sub_status" /\ mob'[m].pc # "sub_status") =>
                LET S == mob[m].sid
                    sent == mobq'[m][Len(mobq'[m])]
                IN /\ Enqueued(m, "session_status")
                   /\ sent.sessionId = S /\ sent.key = "running"
                   /\ (S \in Keys(JSON_PROCESSES) \cap Keys(JSON_BROADCASTERS)) => sent.flag
                   /\ (S \in Keys(PTY_SESSIONS) \cap Keys(PTY_BROADCASTERS)) => sent.flag
                   /\ (S \notin Keys(JSON_PROCESSES) \cup Keys(JSON_BROADCASTERS)
                               \cup Keys(PTY_SESSIONS) \cup Keys(PTY_BROADCASTERS)) => ~sent.flag]_vars

\* C14: a line of a JSON session's output is sent as chat_message to exactly
\* the clients whose subscription set holds the session at the moment of the
\* fan-out; a client that has unsubscribed and not subscribed again gets none.
ChatsOf(m, s) ==
    Cardinality({i \in 1..Len(mobq[m]) :
                    mobq[m][i].type = "chat_message" /\ mobq[m][i].sessionId = s})

C14_FanoutToSubscribers ==
    [][\A c \in ChildIds, st \in Streams, m \in MobIds :
          LET s == task[c][st].session
              gets == /\ Len(mobq'[m]) = Len(mobq[m]) + 1
                      /\ mobq'[m][Len(mobq'[m])].type = "chat_message"
                      /\ mobq'[m][Len(mobq'[m])].sessionId = s
          IN /\ (task[c][st].pc = "fanout" /\ task'[c][st].pc # "fanout")
                    => (gets <=> (MOBILE_CLIENTS[m].present
                                    /\ s \in MOBILE_CLIENTS[m].subscribed_sessions))
             /\ \A x \in SessionIds :
                    (MOBILE_CLIENTS[m].present /\ MOBILE_CLIENTS'[m].present
                       /\ x \notin MOBILE_CLIENTS[m].subscribed_sessions)
                    => \A i \in (Len(mobq[m]) + 1)..Len(mobq'[m]) :
                          ~(mobq'[m][i].type = "chat_message" /\ mobq'[m][i].sessionId = x)
      ]_vars

\* Client 1 got the first line, unsubscribed, and did not get the second line
\* that the subscribed client 2 got.
C14_Witness ==
    /\ ChatsOf(2, "s1") = 2
    /\ ChatsOf(1, "s1") = 1
    /\ MOBILE_CLIENTS[1].present
    /\ "s1" \notin MOBILE_CLIENTS[1].subscribed_sessions

\* C15: for a mobile client connected when a JSON session is spawned, the
\* session_status running=true of that spawn is in the client's channel
\* before every chat_message produced by that spawn.
StartedAt(m, c, j) ==
    /\ mobq[m][j].type = "session_status"
    /\ mobq[m][j].key = "running"
    /\ mobq[m][j].flag
    /\ mobq[m][j].spawn = c

C15_StatusBeforeChat ==
    \A m \in MobIds, c \in ChildIds :
        (MOBILE_CLIENTS[m].present /\ mob[m].born < c)
        => \A i \in 1..Len(mobq[m]) :
              (mobq[m][i].type = "chat_message" /\ mobq[m][i].spawn = c)
              => \E j \in 1..(i - 1) : StartedAt(m, c, j)

C15_Witness ==
    \E m \in MobIds, c \in ChildIds :
        /\ MOBILE_CLIENTS[m].present
        /\ mob[m].born < c
        /\ \E i \in 1..Len(mobq[m]) :
              mobq[m][i].type = "chat_message" /\ mobq[m][i].spawn = c

\* C16: once the session_status running=false of a session's exit has been
\* broadcast, and until the session is reported running again, nothing more
\* about the session is sent: no processing_status on the status bus, no
\* chat_message or status to a mobile client, no output item to a receiver of
\* the session's channel.
Stopped(s) ==
    LET idx == {i \in 1..Len(statusBus) :
                   statusBus[i].type = "session_status" /\ statusBus[i].session_id = s}
    IN /\ idx # {}
       /\ \A i \in idx : (\A j \in idx : j <= i) => ~statusBus[i].running

C16_StatusFalseIsLast ==
    [][\A s \in SessionIds :
          (Stopped(s) /\ Stopped(s)')
          => /\ \A i \in (Len(statusBus) + 1)..Len(statusBus') :
                    statusBus'[i].session_id # s
             /\ \A m \in MobIds :
                    \A i \in (Len(mobq[m]) + 1)..Len(mobq'[m]) :
                        ~(mobq'[m][i].type \in {"chat_message", "session_status"}
                            /\ mobq'[m][i].sessionId = s)
             /\ \A w \in WsIds :
                    (ws[w].pc = "streaming" /\ ws[w].variant = "json" /\ ws[w].sid = s)
                    => (ws'[w].unread <= ws[w].unread /\ ws'[w].lagged = ws[w].lagged)
      ]_vars

\* C17: the supervisor of a JSON spawn signals ready only after it has
\* inserted the session into JSON_PROCESSES and then into JSON_BROADCASTERS;
\* the start request answers 200 only on that signal, and a waiting caller
\* can always go on, with the signal or with the 10 s timeout.
C17_ReadyAfterInsert ==
    [][/\ \A c \in ChildIds :
            /\ (child[c].variant = "json" /\ child[c].ready # "ok" /\ child'[c].ready = "ok")
                    => child[c].pc = "t_ready"
            /\ (child[c].pc = "t_insert_proc" /\ child'[c].pc # "t_insert_proc")
                    => (JSON_PROCESSES'[child[c].session] = c /\ child'[c].pc = "t_insert_bc")
            /\ (child[c].pc = "t_insert_bc" /\ child'[c].pc # "t_insert_bc")
                    => (JSON_BROADCASTERS'[child[c].session] = c /\ child'[c].pc = "t_ready")
       /\ \A r \in ReqIds :
            (req[r].pc = "s_wait" /\ child[req[r].child].variant = "json")
            => /\ (req'[r].pc # "s_wait" /\ req'[r].resp = 200)
                    => child[req[r].child].ready = "ok"
               /\ ENABLED (StartSpawned(r) \/ StartSpawnTimeout(r))
      ]_vars

\* A start request for the JSON session was answered 200 on the ready signal.
C17_Witness ==
    \E r \in ReqIds :
        /\ req[r].pc = "done"
        /\ req[r].resp = 200
        /\ req[r].child # NoChild
        /\ child[req[r].child].variant = "json"
        /\ child[req[r].child].ready = "ok"
        /\ child[req[r].child].session \in Keys(JSON_PROCESSES) \cap Keys(JSON_BROADCASTERS)

\* C18: when the spawn of the JSON session s1 fails (empty command or exec
\* failure), a session_status running=false for s1 is eventually on the
\* global status bus.
C18_FailedSpawnReported ==
    (\E c \in ChildIds :
        child[c].pc = "failed" /\ child[c].variant = "json" /\ child[c].session = "s1")
    ~> (\E i \in 1..Len(statusBus) : statusBus[i] = StatusEvent("s1", FALSE))

\* C19: whenever a task of a JSON session's supervisor reads a parsed message
\* of type assistant or result, from stdout or from stderr, it broadcasts a
\* processing_status for the session on the status bus: processing=true for
\* assistant, processing=false for result.
C19_ProcessingFollowsMessages ==
    [][\A c \in ChildIds, st \in Streams :
          (task[c][st].pc = "idle" /\ task'[c][st].pc # "idle"
             /\ task'[c][st].kind \in {"assistant", "result"})
          => /\ Len(statusBus') = Len(statusBus) + 1
             /\ statusBus'[Len(statusBus')] =
                    ProcessingEvent(task'[c][st].session, task'[c][st].kind = "assistant")
      ]_vars

\* C20: the backlog of undelivered output items of every consumer, per-session
\* WebSocket receiver or mobile subscriber, stays within the channel capacity.
C20_BacklogBounded ==
    /\ \A w \in WsIds : ws[w].unread <= ChannelCapacity
    /\ \A m \in MobIds : ChatsOf(m, "s1") <= ChannelCapacity

\* The data of the frame in the hands of connection w is the last item sent
\* on the channel that table registers for the connection's session.
SentOn(w, table) ==
    LET c == table[ws[w].sid] IN
      c # NoChild => (channel'[c] # <<>> /\ channel'[c][Len(channel'[c])] = ws[w].frame.data)

\* C21: an input frame of a per-session WebSocket that is written to the
\* child is also sent on the session's broadcast channel, for a JSON session
\* (by write_to_process) and for a PTY session (when write_pty has written it).
C21_InputRebroadcast ==
    [][\A w \in WsIds :
          /\ (ws[w].hpc = "echo1" /\ ws'[w].hpc # "echo1") => SentOn(w, JSON_BROADCASTERS)
          /\ (ws[w].variant = "pty" /\ ws[w].hpc = "write" /\ ws'[w].hpc # "write"
                /\ stdin' # stdin)
             => SentOn(w, PTY_BROADCASTERS)
      ]_vars

\* C22: on a PTY session's WebSocket a Text frame whose handling ends while
\* the PTY is registered has either set the window size, when it is a resize
\* message with cols and rows, or been appended to the PTY's input.
C22_TextResizeOrInput ==
    [][\A w \in WsIds :
          LET c == PTY_SESSIONS[ws[w].sid]
              json == from_str(ws[w].frame.data)
          IN (ws[w].variant = "pty" /\ ws[w].hpc = "write" /\ ws'[w].hpc # "write"
                /\ ws[w].frame.op = "Text" /\ c # NoChild)
             => IF json.ok /\ json.type = "resize" /\ json.cols >= 0 /\ json.rows >= 0
                THEN child'[c].size = [cols |-> json.cols, rows |-> json.rows]
                ELSE stdin'[c] = Append(stdin[c], ws[w].frame.data)
      ]_vars

\* C25: after the client has closed a per-session connection, its send task
\* receives nothing more from the status bus or from the session's channel,
\* and no frame is read from the socket.
C25_ClosedStopsTasks ==
    [][\A w \in WsIds :
          (ws[w].pc = "send_only" /\ ws'[w].pc # "closed")
          => /\ ws'[w].pos = ws[w].pos
             /\ ws'[w].unread >= ws[w].unread
             /\ ws'[w].frame = NoFrame
      ]_vars

\* C26: no connection stays open with a ping unanswered when the next
\* keepalive interval ends: at most one ping is unanswered at any time.
C26_PongTimeout ==
    \A w \in WsIds : ws[w].unanswered <= 1


\* A session is live as a JSON session when it is in both JSON tables with a
\* child PID, and as a PTY session when it is in both PTY tables.
LiveJson(s) ==
    /\ s \in Keys(JSON_BROADCASTERS) \cap Keys(JSON_PROCESSES)
    /\ child[JSON_PROCESSES[s]].pid > 0

LivePty(s) == s \in Keys(PTY_BROADCASTERS) \cap Keys(PTY_SESSIONS)

NotLive(s) ==
    s \notin Keys(JSON_BROADCASTERS) \cup Keys(JSON_PROCESSES)
             \cup Keys(PTY_BROADCASTERS) \cup Keys(PTY_SESSIONS)

Answered(r, status, text) ==
    req'[r].pc = "done" /\ req'[r].resp = status /\ req'[r].body = text

\* C23: POST /api/sessions/{id}/interrupt on a live JSON session sends SIGINT
\* to the child and answers 200 interrupted; on a live PTY session it writes
\* one ETX byte to the PTY master and answers 200 interrupted; on a session
\* that is in no table it answers 404 and delivers neither.
C23_InterruptPerVariant ==
    [][\A r \in ReqIds :
          LET s == req[r].sid
              step == req'[r] # req[r]
          IN  /\ (req[r].pc = "i_json" /\ step /\ LiveJson(s)) => req'[r].pc = "i_sigint"
              /\ (req[r].pc = "i_sigint" /\ step /\ LiveJson(s))
                    => /\ Answered(r, 200, "interrupted")
                       /\ signals' = signals \cup {<<child[JSON_PROCESSES[s]].pid, "SIGINT",
                                                     "api_interrupt_session">>}
              /\ (req[r].pc = "i_json" /\ step /\ LivePty(s)) => req'[r].pc = "i_pty"
              /\ (req[r].pc = "i_pty" /\ step /\ LivePty(s)) => req'[r].pc = "i_etx"
              /\ (req[r].pc = "i_etx" /\ step /\ LivePty(s))
                    => /\ Answered(r, 200, "interrupted")
                       /\ signals' = signals \cup {<<child[PTY_SESSIONS[s]].pid, "ETX",
                                                     "api_interrupt_session">>}
              /\ (req[r].pc \in {"i_json", "i_sigint", "i_pty", "i_etx"} /\ step /\ NotLive(s))
                    => /\ signals' = signals
                       /\ req'[r].pc \in {"i_pty", "done"}
                       /\ req'[r].pc = "done" => req'[r].resp = 404
      ]_vars

\* An interrupt request was answered 200 after an ETX was written for a PTY
\* child, and a SIGINT of the endpoint was sent to a JSON child.
C23_Witness ==
    /\ \E r \in ReqIds : req[r].kind = "interrupt" /\ req[r].pc = "done" /\ req[r].resp = 200
    /\ \E sig \in signals : sig[2] = "ETX" /\ sig[3] = "api_interrupt_session"

\* An interrupt request on a JSON session was answered 200.
C23_WitnessJson ==
    /\ \E r \in ReqIds : req[r].kind = "interrupt" /\ req[r].pc = "done" /\ req[r].resp = 200
    /\ \E sig \in signals : sig[2] = "SIGINT" /\ sig[3] = "api_interrupt_session"

\* An interrupt request on a session in no table was answered 404.
C23_WitnessNotLive ==
    \E r \in ReqIds : /\ req[r].kind = "interrupt" /\ req[r].pc = "done"
                      /\ req[r].resp = 404 /\ req[r].body = "Session not running"


\* C24: the interrupt of an authenticated mobile client for a session S
\* delivers the interrupt of the session's variant: SIGINT to the child of a
\* live JSON session, one ETX byte to the PTY master of a live PTY session.
C24_MobileInterruptPerVariant ==
    [][\A m \in MobIds :
          LET s == mob[m].sid IN
            (mob[m].pc = "interrupt" /\ mob'[m].pc # "interrupt")
            => /\ LiveJson(s)
                    => <<child[JSON_PROCESSES[s]].pid, "SIGINT", "handle_ws_mobile">> \in signals'
               /\ LivePty(s)
                    => <<child[PTY_SESSIONS[s]].pid, "ETX", "handle_ws_mobile">> \in signals'
      ]_vars


\* C27: when no save_recently_closed is between its two statements, the
\* recently_closed table holds at most RecentlyClosedCap rows (10 in the
\* source); and the pruning statement of a save that finds more rows keeps
\* exactly that many, unchanged, none of them with an older closed_at than
\* a row it deletes.
C27_CapAfterCalls ==
    /\ []((\A k \in RcCalls : rcCall.pc[k] = "idle")
            => Cardinality(ClosedRows(recently_closed)) <= RecentlyClosedCap)
    /\ [][\A k \in RcCalls :
            (/\ rcCall.pc[k] = "prune" /\ rcCall'.pc[k] = "idle"
             /\ Cardinality(ClosedRows(recently_closed)) > RecentlyClosedCap)
            => /\ Cardinality(ClosedRows(recently_closed')) = RecentlyClosedCap
               /\ \A i \in ClosedRows(recently_closed') : recently_closed'[i] = recently_closed[i]
               /\ \A i \in ClosedRows(recently_closed'),
                     j \in ClosedRows(recently_closed) \ ClosedRows(recently_closed') :
                        recently_closed[i] >= recently_closed[j]
         ]_vars

\* The last pruning statement deleted a row, no save is in progress and the
\* table is full.
C27_Witness ==
    /\ \A k \in RcCalls : rcCall.pc[k] = "idle"
    /\ rcCall.deleted > 0
    /\ Cardinality(ClosedRows(recently_closed)) = RecentlyClosedCap

\* C28: the cap of recently_closed is enforced atomically with the insert:
\* get_recently_closed never returns more than RecentlyClosedCap rows, and
\* no save_recently_closed runs its insert on a table that holds more.
C28_CapAtomic ==
    /\ [](rcCall.seen <= RecentlyClosedCap)
    /\ [][\A k \in RcCalls :
            (rcCall.pc[k] = "idle" /\ rcCall'.pc[k] = "prune")
            => Cardinality(ClosedRows(recently_closed)) <= RecentlyClosedCap
         ]_vars


\* C29: a scrollback snapshot exists only for session ids that have a row in
\* the sessions table: none is left after delete_session, and
\* save_terminal_buffer leaves none for an id without a row.
C29_SnapshotOnlyForSessions ==
    \A s \in SessionIds : terminal_buffers[s] # NoBuffer => HasRow(s)

CleanupPcs == {"t_remove_proc", "t_remove_bc", "t_clear_pid", "t_status_false",
               "p_remove_sess", "p_remove_bc", "p_status_false"}

\* Another child than c is registered for the session s and still runs.
NewerChildRuns(c, s) ==
    \E d \in ChildIds \ {c} :
        /\ child[d].session = s
        /\ child[d].pid \in osAlive
        /\ d \in {PTY_SESSIONS[s], PTY_BROADCASTERS[s], JSON_PROCESSES[s], JSON_BROADCASTERS[s]}

\* C31: a step of a child's exit cleanup removes no table entry that another
\* child registered for the same session id, does not clear the PID another
\* child recorded, and does not report the session as stopped while another
\* child registered for it runs.
C31_CleanupOwnEntriesOnly ==
    [][\A c \in ChildIds :
          LET s == child[c].session IN
            (child[c].pc \in CleanupPcs /\ child'[c].pc # child[c].pc)
            => /\ PTY_SESSIONS[s] \notin {NoChild, c} => PTY_SESSIONS'[s] = PTY_SESSIONS[s]
               /\ PTY_BROADCASTERS[s] \notin {NoChild, c}
                    => PTY_BROADCASTERS'[s] = PTY_BROADCASTERS[s]
               /\ JSON_PROCESSES[s] \notin {NoChild, c} => JSON_PROCESSES'[s] = JSON_PROCESSES[s]
               /\ JSON_BROADCASTERS[s] \notin {NoChild, c}
                    => JSON_BROADCASTERS'[s] = JSON_BROADCASTERS[s]
               /\ sessions[s].running_pid \notin {NoPid, child[c].pid}
                    => sessions'[s].running_pid = sessions[s].running_pid
               /\ NewerChildRuns(c, s)
                    => \A k \in (Len(statusBus) + 1)..Len(statusBus') :
                          statusBus'[k] # StatusEvent(s, FALSE)
      ]_vars


\* PIDs of the children the current instance has spawned.
CurrentPids == {child[c].pid : c \in ChildIds} \ {NoPid}

\* C32: cleanup_orphaned_processes never signals a child spawned by the
\* current instance and never clears the PID such a child recorded, however
\* its thread interleaves with spawns.
C32_RecoverySparesCurrentChildren ==
    [][/\ \A sig \in signals' \ signals : sig[3] = "cleanup" => sig[1] \notin CurrentPids
       /\ (cleanup.pc = "clear" /\ cleanup'.pc # "clear")
            => \A s \in SessionIds :
                  sessions[s].running_pid \in CurrentPids
                  => sessions'[s].running_pid = sessions[s].running_pid
      ]_vars


\* The INSERT OR REPLACE of a save_session call for an id that has a row.
SaveOfExisting(s) ==
    saveCall.pc = "insert" /\ saveCall'.pc = "idle" /\ saveCall.sid = s /\ HasRow(s)

\* C33: save_session for an id that already has a row leaves the row's
\* recorded running PID unchanged.
C33_SaveKeepsPid ==
    [][\A s \in SessionIds :
          SaveOfExisting(s) => sessions'[s].running_pid = sessions[s].running_pid
      ]_vars

\* C34: save_session for an id that already has a row leaves the session's
\* stored snapshot unchanged; a snapshot is removed only by
\* delete_terminal_buffer or by the deletion of its session.
C34_SaveKeepsSnapshot ==
    [][\A s \in SessionIds :
          /\ SaveOfExisting(s) => terminal_buffers'[s] = terminal_buffers[s]
          /\ (terminal_buffers[s] # NoBuffer /\ terminal_buffers'[s] = NoBuffer)
                => (delete_terminal_buffer(s) \/ delete_session(s))
      ]_vars

\* C40: every session id in a live-session table has a row in the sessions
\* table.
C40_LiveSessionsHaveRows ==
    \A s \in Keys(PTY_SESSIONS) \cup Keys(JSON_PROCESSES) : HasRow(s)


\* C35: a mobile client that has not authenticated is sent nothing but
\* auth_success, auth_error and error.
C35_NothingBeforeAuth ==
    [][\A m \in MobIds :
          (~mob[m].authenticated /\ ~mob'[m].authenticated)
          => \A k \in (Len(mobq[m]) + 1)..Len(mobq'[m]) :
                mobq'[m][k].type \in {"auth_success", "auth_error", "error"}
      ]_vars


\* C36: an input a remote client sends to a JSON session (a Text frame on
\* the per-session WebSocket, a send_message frame on the mobile WebSocket)
\* is sent on the session's channel exactly once when the child's stdin
\* channel accepted it, and not at all when it did not.
C36_OneCopyPerInput ==
    [][/\ \A w \in WsIds :
            (ws[w].hpc = "echo2" /\ ws'[w].hpc = "")
            => (ws[w].copies + (IF JSON_BROADCASTERS[ws[w].sid] # NoChild THEN 1 ELSE 0))
               = (IF ws[w].accepted THEN 1 ELSE 0)
       /\ \A m \in MobIds :
            (mob[m].pc = "send_echo2" /\ mob'[m].pc = "open")
            => (mob[m].copies + (IF JSON_BROADCASTERS[mob[m].sid] # NoChild THEN 1 ELSE 0))
               = (IF mob[m].accepted THEN 1 ELSE 0)
      ]_vars


\* C37: when session_status running=false is broadcast for a session, the
\* last processing_status broadcast for that session before it, if there is
\* one, is processing=false: an exit never leaves processing=true standing.
C37_ExitClearsProcessing ==
    \A i \in 1..Len(statusBus) :
        (statusBus[i].type = "session_status" /\ ~statusBus[i].running)
        => LET s == statusBus[i].session_id
               before == {j \in 1..(i - 1) : /\ statusBus[j].type = "processing_status"
                                             /\ statusBus[j].session_id = s}
           IN before # {}
              => \E j \in before : /\ \A k \in before : k <= j
                                   /\ ~statusBus[j].running


\* C38: whatever the interleaving of the pin-login requests of one client
\* address, the failures recorded for it, each answered 401, never exceed
\* five before the endpoint answers 429.
C38_AtMostFiveFailures ==
    \A ip \in Ips : PIN_RATE_LIMIT[ip].attempts <= MaxPinAttempts

\* C39: pin-login answers 429 only when the failures counted for the client
\* address are at least five and all of them are less than 900 s old.
C39_LimitCountsWindowOnly ==
    [][\A k \in PinCalls :
          (pinCall[k].pc = "rate" /\ pinCall'[k].pc = "done" /\ pinCall'[k].resp = 429)
          => /\ PIN_RATE_LIMIT[pinCall[k].ip].attempts >= MaxPinAttempts
             /\ now - PIN_RATE_LIMIT[pinCall[k].ip].since < RateWindowSecs * 1000]_vars

====
